---- MODULE Spec2Model ----
(***************************************************************************)
(* A model of the resilience add-on of dear imgui                          *)
(* (src/imgui_resilience.h, implementation in src/accessibility_test.cpp   *)
(* from line 117 on): the pointer dependency graph, the timeout predictor, *)
(* the render heartbeat, the healing queue with the shared metrics, and    *)
(* the auto font switching of ImGui_ImplResilience_NewFrame.               *)
(*                                                                         *)
(* Pointers are small positive integers, NULL is 0.  Times are counted in  *)
(* half seconds (every time the sources name is a multiple of 0.5 s, and   *)
(* those are exact in float and double).                                   *)
(***************************************************************************)
EXTENDS Integers, Sequences, FiniteSets, TLC

(***************************************************************************)
(* Bounds of the model.                                                    *)
(***************************************************************************)
\* number of distinct non-null pointer identities handed to the graph
NumPtrs == 3
\* number of distinct non-null node names
NumNames == 1
\* pointers of the graphs on which the order of FindDependents is examined
NumTreePtrs == 6

\* significand bits of the floating-point format that stands for double
\* (round to nearest, ties to even, exponent unbounded)
MantBits == 4
\* detection latencies and healing times are the integers 0..MaxLatency
MaxLatency == 7
\* number of UpdateException calls after a Reset
MaxExceptions == 3
\* caps of the other metrics counters
MaxHealings == 2
MaxLeak == 1
MaxFrameDrops == 1

\* threads that own a thread-local healing queue
NumThreads == 2
\* healing commands ever allocated
MaxCmds == 3

\* fonts in the atlas
MaxFonts == 3
\* frames the host renders
MaxFrames == 34
\* the host clock g.Time, in half seconds
MaxTime == 3
\* timeouts handed to SetTimeout and set as io.RenderTimeout, in half seconds
MaxTimeout == 2
\* events recorded by the predictor, and distinct event type strings
MaxEvents == 4
\* events recorded beyond the limit of the history
MaxOverflow == 2
NumTypes == 2

\* windows of the host, draw lists it can allocate, widget ids
NumWindows == 2
NumDrawLists == 3
MaxActiveId == 1

NULL == 0
Ptrs == 1..NumPtrs
PtrsOrNull == 0..NumPtrs
Names == 0..NumNames
Threads == 1..NumThreads
Cmds == 1..MaxCmds
Types == 1..NumTypes
Windows == 1..NumWindows
DrawLists == 1..NumDrawLists

VARIABLES
    Nodes,          \* ImPointerGraph::Nodes, a sequence of ImPointerNode
    graphStatus,    \* "ok", "aborted" (an IM_ASSERT stopped the process) or
                    \* "hung" (FindDependents never returns)
    eraseAtEnd,     \* some erase_unsorted was handed the list's end()
    findResult      \* the value returned by the last FindDependents call

VARIABLES
    GImResilienceMetrics,   \* the process-wide ImResilienceMetrics
    latencyLog              \* the latencies passed to UpdateException since
                            \* the last Reset

VARIABLES
    GImPointerGraph,    \* per thread: the thread-local graph pointer is non-null
    GImHealingQueue,    \* per thread: the thread-local queue pointer is non-null
    Queue,              \* per thread: ImHealingQueue::Queue, a sequence of commands
    cmds,               \* per command: Priority, the value its Execute returns,
                        \* where it is, how often it was executed and deleted
    pc,                 \* per thread: where it stands in ExecuteAll
    cmd,                \* per thread: the local cmd of ExecuteAll
    success,            \* per thread: the local success of ExecuteAll
    loaded,             \* per thread: the counter value read by UpdateHealing
    dequeued,           \* per thread: the value returned by its last Dequeue call
    trace,              \* per thread: the Enqueue and Dequeue calls on its queue
    run                 \* per thread: its current or last ExecuteAll: the queue
                        \* and the counters at its start, the commands executed

VARIABLES
    g_AutoFontSwitchEnabled,
    g_CurrentFontIndex,
    g_LastFontSwitchTime,
    ioTime,             \* g.IO.Time
    hasAtlas,           \* g.IO.Fonts != nullptr
    fontsSize,          \* g.IO.Fonts->Fonts.Size
    gFont,              \* the index of the font installed by SetCurrentFont,
                        \* -1 while none was installed
    frame,              \* the frame counter of the host's render loop
    at,                 \* where the host's render loop stands
    switchFrames        \* the frames whose NewFrame changed g_CurrentFontIndex

VARIABLES
    CurrentSession,     \* ImRenderHeartbeat: NULL or the session name
    StartTime,
    TimeoutSec,
    gTime,              \* g.Time
    RenderTimeout,      \* g.IO.RenderTimeout
    sessionOpen,        \* StartSession was called and EndSession not since
    checked,            \* the value returned by the last CheckTimeout call
    custom              \* the argument of the last SetTimeout call, if any

VARIABLES
    EventHistory,       \* ImTimeoutPredictor::EventHistory
    eventLog,           \* every event recorded since construction or Reset
    predicted           \* the value returned by the last PredictChainProbability

VARIABLES
    CurrentWindow,      \* g.CurrentWindow: NULL or a window
    DrawList,           \* per window: its DrawList
    ActiveId,           \* g.ActiveId
    allocated,          \* the draw lists created so far
    released,           \* the draw lists deleted so far
    installed,          \* the draw lists installed while the scope was open
    scopeAt,            \* "none", "open" or "destroyed": the ImIsolatedScope
    HasException,
    OriginalDrawList,
    OriginalActiveId

VARIABLES
    GImDefaultValueEngine,  \* the global engine pointer is non-null
    MinimalFont,            \* ImDefaultValueEngine::MinimalFont of that engine
    deref,                  \* the last GetDefaultFont or ImSafeDeref call
    lifecycle               \* the last Initialize or Shutdown call: the metrics
                            \* it found, and a bit that every such call flips

VARIABLES
    Mutex,              \* ImHealingQueue::Mutex of the queue of thread 1: NULL or
                        \* the thread that holds it
    call,               \* per thread: its call on that queue and where it stands
    enqueuesCompleted,  \* the Enqueue calls on that queue that have returned
    dequeuesCompleted,  \* the Dequeue calls that have returned a command
    returnedCount       \* per command: how many Dequeue calls returned it

VARIABLE
    queuedAtNewFrame    \* per thread: its last NewFrame found its healing queue
                        \* in place with commands in it

graphVars == <<Nodes, graphStatus, eraseAtEnd, findResult>>

metricsVars == <<GImResilienceMetrics, latencyLog>>

queueVars == <<GImPointerGraph, GImHealingQueue, Queue, cmds, pc, cmd, success,
               loaded, dequeued, trace, run>>

fontVars == <<g_AutoFontSwitchEnabled, g_CurrentFontIndex, g_LastFontSwitchTime,
              ioTime, hasAtlas, fontsSize, gFont, frame, at, switchFrames>>

heartbeatVars == <<CurrentSession, StartTime, TimeoutSec, RenderTimeout, sessionOpen,
                   checked, custom>>

predictorVars == <<EventHistory, eventLog, predicted>>

scopeVars == <<CurrentWindow, DrawList, ActiveId, allocated, released, installed,
               scopeAt, HasException, OriginalDrawList, OriginalActiveId>>

engineVars == <<GImDefaultValueEngine, MinimalFont, deref, lifecycle>>

lockVars == <<Mutex, call, enqueuesCompleted, dequeuesCompleted, returnedCount>>

hostVars == <<scopeVars, engineVars, lockVars, queuedAtNewFrame>>

queueVarsButPc == <<GImPointerGraph, GImHealingQueue, Queue, cmds, cmd, success,
                    loaded, dequeued, trace, run>>

vars == <<graphVars, metricsVars, queueVars, fontVars, heartbeatVars, gTime,
          predictorVars, hostVars>>

(***************************************************************************)
(* Sequence helpers (ImVector).                                            *)
(***************************************************************************)
Last(s) == s[Len(s)]

Front(s) == SubSeq(s, 1, Len(s) - 1)

Range(s) == {s[i] : i \in 1..Len(s)}

\* std::find: the first position holding x, 0 for end()
FindFirst(s, x) ==
    IF \E i \in 1..Len(s) : s[i] = x
    THEN CHOOSE i \in 1..Len(s) : s[i] = x /\ \A j \in 1..(i - 1) : s[j] # x
    ELSE 0

\* ImVector::erase_unsorted at a valid position: the last element takes the
\* place of the erased one
EraseUnsortedAt(s, k) ==
    IF k < Len(s)
    THEN [i \in 1..(Len(s) - 1) |-> IF i = k THEN Last(s) ELSE s[i]]
    ELSE Front(s)

(***************************************************************************)
(* double arithmetic.  A value is a reduced fraction <<n, d>> with n >= 0; *)
(* every operation rounds its exact result to MantBits significant bits,   *)
(* to nearest and ties to even, as IEEE 754 does with 53 bits.             *)
(***************************************************************************)
RECURSIVE GCD(_, _)
GCD(a, b) == IF b = 0 THEN a ELSE GCD(b, a % b)

Reduced(n, d) == IF n = 0 THEN <<0, 1>> ELSE <<n \div GCD(n, d), d \div GCD(n, d)>>

RECURSIVE Pow2(_)
Pow2(k) == IF k = 0 THEN 1 ELSE 2 * Pow2(k - 1)

\* n/d scaled by sn/sd lies in [2^(MantBits-1), 2^MantBits): round the scaled
\* value to an integer and scale back
RECURSIVE RoundScaled(_, _, _, _)
RoundScaled(n, d, sn, sd) ==
    IF n >= d * Pow2(MantBits) THEN RoundScaled(n, 2 * d, 2 * sn, sd)
    ELSE IF n < d * Pow2(MantBits - 1) THEN RoundScaled(2 * n, d, sn, 2 * sd)
    ELSE LET m   == n \div d
             rem == n - m * d
             up  == 2 * rem > d \/ (2 * rem = d /\ m % 2 = 1)
         IN  Reduced((IF up THEN m + 1 ELSE m) * sn, sd)

Round(q) == IF q[1] = 0 THEN <<0, 1>> ELSE RoundScaled(q[1], q[2], 1, 1)

\* int -> double
ToDouble(k) == Round(<<k, 1>>)

\* double * int, double + double, double / int
FMul(a, k) == Round(<<a[1] * k, a[2]>>)

FAdd(a, b) == Round(<<a[1] * b[2] + b[1] * a[2], a[2] * b[2]>>)

FDiv(a, k) == Round(<<a[1], a[2] * k>>)

Zero == <<0, 1>>

(***************************************************************************)
(* ImResilienceMetrics                                                     *)
(***************************************************************************)
\* ImResilienceMetrics::Reset; also the zero-initialised global
MetricsReset ==
    [ExceptionCount |-> 0, HandledExceptionCount |-> 0,
     HealingSuccessCount |-> 0, HealingFailedCount |-> 0,
     AverageDetectionLatency |-> Zero, AverageHealingTime |-> Zero,
     TotalResourceLeak |-> 0, FrameDropCount |-> 0]

\* UpdateException that multiplies the old average by ExceptionCount
\* instead of ExceptionCount - 1
UpdateExceptionOffByOne(m, handled, detection_latency) ==
    LET count == m.ExceptionCount + 1
    IN  [m EXCEPT
            !.ExceptionCount = count,
            !.HandledExceptionCount = IF handled THEN @ + 1 ELSE @,
            !.AverageDetectionLatency =
                IF count = 1 THEN detection_latency
                ELSE FDiv(FAdd(FMul(@, count), detection_latency), count)]

\* ImResilienceMetrics::UpdateException
UpdateExceptionResult(m, handled, detection_latency) ==
    LET count == m.ExceptionCount + 1
    IN  [m EXCEPT
            !.ExceptionCount = count,
            !.HandledExceptionCount = IF handled THEN @ + 1 ELSE @,
            !.AverageDetectionLatency =
                IF count = 1 THEN detection_latency
                ELSE FDiv(FAdd(FMul(@, count - 1), detection_latency), count)]

\* UpdateHealing without its else branch: a failure is not counted
UpdateHealingNoElse(m, healed, healing_time) ==
    LET counted == IF healed THEN [m EXCEPT !.HealingSuccessCount = @ + 1] ELSE m
        total   == counted.HealingSuccessCount + counted.HealingFailedCount
    IN  [counted EXCEPT
            !.AverageHealingTime =
                IF total = 1 THEN healing_time
                ELSE FDiv(FAdd(FMul(@, total - 1), healing_time), total)]

\* ImResilienceMetrics::UpdateHealing(success, healing_time)
UpdateHealingResult(m, healed, healing_time) ==
    LET counted == IF healed
                   THEN [m EXCEPT !.HealingSuccessCount = @ + 1]
                   ELSE [m EXCEPT !.HealingFailedCount = @ + 1]
        total   == counted.HealingSuccessCount + counted.HealingFailedCount
    IN  [counted EXCEPT
            !.AverageHealingTime =
                IF total = 1 THEN healing_time
                ELSE FDiv(FAdd(FMul(@, total - 1), healing_time), total)]

Latencies == {ToDouble(k) : k \in 0..MaxLatency}

(***************************************************************************)
(* ImHealingCommand, ImHealingQueue                                        *)
(***************************************************************************)
\* enum Priority
Priority_Low == 0
Priority_Normal == 1
Priority_High == 2
Priority_Critical == 3
Priorities == Priority_Low..Priority_Critical

\* ImHealingCommand::operator<
Less(prio, a, b) == prio[a] < prio[b]

\* the comparator handed to std::sort: a goes before b
SortBefore(prio, a, b) == Less(prio, b, a)

\* every arrangement of the elements of q
RECURSIVE Arrangements(_)
Arrangements(q) ==
    IF q = <<>> THEN {<<>>}
    ELSE UNION {{<<q[i]>> \o r :
                    r \in Arrangements(SubSeq(q, 1, i - 1) \o SubSeq(q, i + 1, Len(q)))} :
                i \in 1..Len(q)}

\* Enqueue without its std::sort
NoSort(prio, q) == {q}

\* std::sort(begin, end, comp): some arrangement in which no element stands
\* behind one it must go before; which one is unspecified among equivalent
\* elements (the sort is not stable)
StdSort(prio, q) ==
    {r \in Arrangements(q) :
        \A i, j \in 1..Len(r) : i < j => ~SortBefore(prio, r[j], r[i])}

\* ImHealingQueue::Enqueue: the possible queues after the call
EnqueueResults(prio, queue, c) == StdSort(prio, Append(queue, c))

\* a Dequeue that leaves out "Queue.pop_back()"
DequeueKeepsBack(queue) ==
    IF queue = <<>> THEN [cmd |-> NULL, queue |-> queue]
    ELSE [cmd |-> Last(queue), queue |-> queue]

\* ImHealingQueue::Dequeue: the command returned and the queue left
DequeueResult(queue) ==
    IF queue = <<>> THEN [cmd |-> NULL, queue |-> queue]
    ELSE [cmd |-> Last(queue), queue |-> Front(queue)]

\* ImHealingQueue::GetSize
GetSize(queue) == Len(queue)

\* a call that does not take the mutex
NoLockGuard(holder) == TRUE

\* "std::lock_guard<ImMutex> lock(Mutex)": the call goes on once nobody
\* holds the mutex
LockGuard(holder) == holder = NULL

(***************************************************************************)
(* ImPointerGraph                                                          *)
(***************************************************************************)
\* ImPointerNode.  Underflow records Children.Size == -1, the value that
\* erase_unsorted(end()) leaves in an empty vector when IM_ASSERT is compiled
\* out.
ImPointerNode(ptr, parent, name) ==
    [Ptr |-> ptr, Parent |-> parent, Name |-> name, Children |-> <<>>,
     Underflow |-> FALSE]

\* the linear scans "for (i...) if (Nodes[i].Ptr == ptr)": first index, 0 if none
NodeIndex(nodes, ptr) ==
    IF \E i \in 1..Len(nodes) : nodes[i].Ptr = ptr
    THEN CHOOSE i \in 1..Len(nodes) :
            nodes[i].Ptr = ptr /\ \A j \in 1..(i - 1) : nodes[j].Ptr # ptr
    ELSE 0

IsTracked(nodes, ptr) ==
    IF ptr = NULL THEN FALSE ELSE \E i \in 1..Len(nodes) : nodes[i].Ptr = ptr

\* Children.push_back(ptr) on node i.  A vector left with Size == -1 and
\* Data == NULL is written at Data[-1]: the process faults.
PushChild(nodes, i, ptr) ==
    IF nodes[i].Underflow
    THEN [nodes |-> nodes, status |-> "aborted", atEnd |-> FALSE]
    ELSE [nodes |-> [nodes EXCEPT ![i].Children = Append(@, ptr)],
          status |-> "ok", atEnd |-> FALSE]

\* Children.erase_unsorted(std::find(begin, end, ptr)) on node i: the set of
\* outcomes.  When ptr is not in the list the iterator is end(): IM_ASSERT
\* stops a build that has assertions, a build without them runs Size--,
\* which drops the last child or leaves Size == -1 in an empty list.
EraseChild(nodes, i, ptr) ==
    LET ch == nodes[i].Children
        k  == FindFirst(ch, ptr)
    IN  IF nodes[i].Underflow
        THEN {[nodes |-> nodes, status |-> "aborted", atEnd |-> FALSE]}
        ELSE IF k # 0
        THEN {[nodes |-> [nodes EXCEPT ![i].Children = EraseUnsortedAt(ch, k)],
               status |-> "ok", atEnd |-> FALSE]}
        ELSE {[nodes |-> nodes, status |-> "aborted", atEnd |-> TRUE],
              [nodes |-> IF ch = <<>>
                         THEN [nodes EXCEPT ![i].Underflow = TRUE]
                         ELSE [nodes EXCEPT ![i].Children = Front(ch)],
               status |-> "ok", atEnd |-> TRUE]}

\* TrackPointer: the node list after the call
TrackPointerResult(nodes, ptr, parent, name) ==
    IF ptr = NULL \/ IsTracked(nodes, ptr)
    THEN [nodes |-> nodes, status |-> "ok", atEnd |-> FALSE]
    ELSE LET added == Append(nodes, ImPointerNode(ptr, parent, name))
             pi    == NodeIndex(added, parent)
         IN  IF parent # NULL /\ pi # 0
             THEN PushChild(added, pi, ptr)
             ELSE [nodes |-> added, status |-> "ok", atEnd |-> FALSE]

\* UntrackPointer: the set of outcomes
UntrackPointerResults(nodes, ptr) ==
    LET index == NodeIndex(nodes, ptr)
    IN  IF ptr = NULL \/ index = 0
        THEN {[nodes |-> nodes, status |-> "ok", atEnd |-> FALSE]}
        ELSE LET pi == NodeIndex(nodes, nodes[index].Parent)
                 detached ==
                     IF nodes[index].Parent # NULL /\ pi # 0
                     THEN EraseChild(nodes, pi, ptr)
                     ELSE {[nodes |-> nodes, status |-> "ok", atEnd |-> FALSE]}
             IN  {IF o.status = "ok"
                  THEN [o EXCEPT !.nodes = EraseUnsortedAt(o.nodes, index)]
                  ELSE o : o \in detached}

\* UpdateDependency: the set of outcomes
UpdateDependencyResults(nodes, ptr, new_parent) ==
    LET i == NodeIndex(nodes, ptr)
    IN  IF ptr = NULL
        THEN {[nodes |-> nodes, status |-> "ok", atEnd |-> FALSE]}
        ELSE IF i = 0
        THEN {TrackPointerResult(nodes, ptr, new_parent, NULL)}
        ELSE LET j == NodeIndex(nodes, nodes[i].Parent)
                 detached ==
                     IF nodes[i].Parent # NULL /\ j # 0
                     THEN EraseChild(nodes, j, ptr)
                     ELSE {[nodes |-> nodes, status |-> "ok", atEnd |-> FALSE]}
                 Attach(o) ==
                     LET moved == [o.nodes EXCEPT ![i].Parent = new_parent]
                         nj    == NodeIndex(moved, new_parent)
                     IN  IF new_parent # NULL /\ nj # 0
                         THEN [PushChild(moved, nj, ptr) EXCEPT !.atEnd = o.atEnd]
                         ELSE [o EXCEPT !.nodes = moved]
             IN  {IF o.status = "ok" THEN Attach(o) ELSE o : o \in detached}

\* the inner scan of FindDependents: the Ptr of every node whose Parent is
\* current, in Nodes order
RECURSIVE ScanChildren(_, _, _)
ScanChildren(nodes, current, i) ==
    IF i > Len(nodes) THEN <<>>
    ELSE (IF nodes[i].Parent = current THEN <<nodes[i].Ptr>> ELSE <<>>)
         \o ScanChildren(nodes, current, i + 1)

\* FindDependentsLoop without "queue.push_back(Nodes[i].Ptr)": only the
\* direct children are found
RECURSIVE FindDependentsLoopNoPush(_, _, _, _)
FindDependentsLoopNoPush(nodes, queue, dependents, fuel) ==
    IF queue = <<>> THEN [Terminated |-> TRUE, Dependents |-> dependents]
    ELSE IF fuel = 0 THEN [Terminated |-> FALSE, Dependents |-> dependents]
    ELSE LET found == ScanChildren(nodes, Last(queue), 1)
         IN  FindDependentsLoopNoPush(nodes, Front(queue), dependents \o found,
                                      fuel - 1)

\* the while loop of FindDependents, cut after `fuel' iterations
RECURSIVE FindDependentsLoop(_, _, _, _)
FindDependentsLoop(nodes, queue, dependents, fuel) ==
    IF queue = <<>> THEN [Terminated |-> TRUE, Dependents |-> dependents]
    ELSE IF fuel = 0 THEN [Terminated |-> FALSE, Dependents |-> dependents]
    ELSE LET current == Last(queue)
             found   == ScanChildren(nodes, current, 1)
         IN  FindDependentsLoop(nodes, Front(queue) \o found,
                                dependents \o found, fuel - 1)

\* Every terminating run pops each tracked pointer at most once after the
\* root, so a run that needs more than Len(nodes) + 1 iterations pops some
\* pointer twice and never ends.
FindDependents(nodes, root) ==
    IF root = NULL THEN [Terminated |-> TRUE, Dependents |-> <<>>]
    ELSE FindDependentsLoop(nodes, <<root>>, <<>>, Len(nodes) + 1)

NoCall == [Root |-> NULL, Called |-> FALSE, Terminated |-> TRUE, Dependents |-> <<>>]

(***************************************************************************)
(* ImRenderHeartbeat                                                       *)
(***************************************************************************)
\* the constructor's TimeoutSec(0.5), in half seconds
DefaultTimeoutSec == 1

\* the timeout StartSession leaves in TimeoutSec
StartSessionTimeout(timeout_sec, render_timeout) ==
    IF render_timeout > 0 THEN render_timeout ELSE timeout_sec

\* CheckTimeout without its test of CurrentSession
CheckTimeoutAlwaysTimed(session, start_time, timeout_sec, time) ==
    LET elapsed == time - start_time IN elapsed > timeout_sec

\* ImRenderHeartbeat::CheckTimeout
CheckTimeoutResult(session, start_time, timeout_sec, time) ==
    IF session = NULL THEN FALSE
    ELSE LET elapsed == time - start_time IN elapsed > timeout_sec

NotChecked == [Called |-> FALSE, Value |-> FALSE]

NoCustom == [Set |-> FALSE, Value |-> 0]

(***************************************************************************)
(* ImTimeoutPredictor                                                      *)
(***************************************************************************)
\* the constructor's MaxHistorySize(1000)
MaxHistorySize == 1000

\* ImTimeoutPredictor::RecordEvent: the history after the call
\* struct ImTimeoutEvent
ImTimeoutEvent(event_type, timed_out, now) ==
    [Type |-> event_type, TimedOut |-> timed_out, Timestamp |-> now]

\* RecordEvent that evicts as soon as the history reaches its limit
RecordEventEvictsEarly(history, event_type, timed_out, now) ==
    LET pushed == Append(history, ImTimeoutEvent(event_type, timed_out, now))
    IN  IF Len(pushed) >= MaxHistorySize THEN Tail(pushed) ELSE pushed

\* ImTimeoutPredictor::RecordEvent: the history after the call
RecordEventResult(history, event_type, timed_out, now) ==
    LET pushed == Append(history, ImTimeoutEvent(event_type, timed_out, now))
    IN  IF Len(pushed) > MaxHistorySize THEN Tail(pushed) ELSE pushed

\* CountTransitions that reads TimedOut of the first event of the pair
RECURSIVE CountTransitionsFirst(_, _, _, _)
CountTransitionsFirst(history, last_event_type, next_event_type, i) ==
    IF i < 1 THEN [transition_count |-> 0, timeout_transition_count |-> 0]
    ELSE LET rest == CountTransitionsFirst(history, last_event_type, next_event_type,
                                           i - 1)
         IN  IF history[i].Type = last_event_type /\ history[i + 1].Type = next_event_type
             THEN [transition_count |-> rest.transition_count + 1,
                   timeout_transition_count |->
                       rest.timeout_transition_count
                       + (IF history[i].TimedOut THEN 1 ELSE 0)]
             ELSE rest

\* the for loop of PredictChainProbability, from index i down to the first
\* event: transition_count and timeout_transition_count
RECURSIVE CountTransitions(_, _, _, _)
CountTransitions(history, last_event_type, next_event_type, i) ==
    IF i < 1 THEN [transition_count |-> 0, timeout_transition_count |-> 0]
    ELSE LET rest == CountTransitions(history, last_event_type, next_event_type, i - 1)
         IN  IF history[i].Type = last_event_type /\ history[i + 1].Type = next_event_type
             THEN [transition_count |-> rest.transition_count + 1,
                   timeout_transition_count |->
                       rest.timeout_transition_count
                       + (IF history[i + 1].TimedOut THEN 1 ELSE 0)]
             ELSE rest

\* PredictChainProbability that counts the transitions into next_event_type
\* from any type, not only from the last recorded one
PredictFromAnyType(history, next_event_type) ==
    IF Len(history) < 2 THEN Zero
    ELSE LET into == {i \in 1..(Len(history) - 1) : history[i + 1].Type = next_event_type}
             out  == {i \in into : history[i + 1].TimedOut}
         IN  IF into = {} THEN Zero
             ELSE Round(<<Cardinality(out), Cardinality(into)>>)

\* ImTimeoutPredictor::PredictChainProbability
PredictChainProbability(history, next_event_type) ==
    IF Len(history) < 2 THEN Zero
    ELSE LET n == CountTransitions(history, Last(history).Type, next_event_type,
                                   Len(history) - 1)
         IN  IF n.transition_count = 0 THEN Zero
             ELSE Round(<<n.timeout_transition_count, n.transition_count>>)

NotPredicted == [Called |-> FALSE, Next |-> 1, Value |-> Zero]

(***************************************************************************)
(* Auto font switching                                                     *)
(***************************************************************************)
\* g_FontSwitchInterval = 5.0f, in half seconds
g_FontSwitchInterval == 10

\* the auto font switching of ImGui_ImplResilience_NewFrame: the statics and
\* the installed font after the call
AutoFontSwitch(enabled, index, last, font, current_time, atlas, size) ==
    IF enabled /\ current_time - last > g_FontSwitchInterval
    THEN IF atlas /\ size > 1
         THEN LET wrapped == IF index + 1 >= size THEN 0 ELSE index + 1
              IN  [Index |-> wrapped, Last |-> current_time, Font |-> wrapped]
         ELSE [Index |-> index + 1, Last |-> last, Font |-> font]
    ELSE [Index |-> index, Last |-> last, Font |-> font]

(***************************************************************************)
(* The state after construction.                                           *)
(***************************************************************************)
PriorityOf == [c \in Cmds |-> cmds[c].Priority]

\* the number of Enqueue calls in a trace
EnqueueCount(tr) == Cardinality({i \in 1..Len(tr) : tr[i].op = "Enqueue"})

NoRun == [Active |-> FALSE, Ran |-> FALSE, StartQueue |-> <<>>, StartSuccess |-> 0,
          StartFailed |-> 0, Enqueues |-> 0, Executed |-> <<>>]

GraphInit ==
    /\ Nodes = <<>>
    /\ graphStatus = "ok"
    /\ eraseAtEnd = FALSE
    /\ findResult = NoCall

MetricsInit ==
    /\ GImResilienceMetrics = MetricsReset
    /\ latencyLog = <<>>

QueueInit ==
    /\ GImPointerGraph = [t \in Threads |-> FALSE]
    /\ GImHealingQueue = [t \in Threads |-> FALSE]
    /\ Queue = [t \in Threads |-> <<>>]
    /\ cmds = [c \in Cmds |-> [Priority |-> Priority_Normal, Succeeds |-> TRUE,
                                State |-> "unallocated", Executed |-> 0, Deleted |-> 0]]
    /\ pc = [t \in Threads |-> "idle"]
    /\ cmd = [t \in Threads |-> NULL]
    /\ success = [t \in Threads |-> FALSE]
    /\ loaded = [t \in Threads |-> 0]
    /\ dequeued = [t \in Threads |-> NULL]
    /\ trace = [t \in Threads |-> <<>>]
    /\ run = [t \in Threads |-> NoRun]

\* the statics of the auto font switching and the host's render loop
FontStatics ==
    /\ g_AutoFontSwitchEnabled = FALSE
    /\ g_CurrentFontIndex = 0
    /\ g_LastFontSwitchTime = 0
    /\ ioTime = 0
    /\ gFont = -1
    /\ frame = 0
    /\ at = "mode"
    /\ switchFrames = <<>>

\* a fresh context: an atlas without fonts
FontInit ==
    /\ FontStatics
    /\ hasAtlas = TRUE
    /\ fontsSize = 0

\* the host has registered any number of fonts, or has no atlas
FontInitAny ==
    /\ FontStatics
    /\ hasAtlas \in BOOLEAN
    /\ fontsSize \in 0..MaxFonts
    /\ ~hasAtlas => fontsSize = 0

HeartbeatObject ==
    /\ CurrentSession = NULL
    /\ StartTime = 0
    /\ TimeoutSec = DefaultTimeoutSec
    /\ sessionOpen = FALSE
    /\ checked = NotChecked
    /\ custom = NoCustom

HeartbeatInit ==
    /\ HeartbeatObject
    /\ RenderTimeout = 0

\* the host has set io.RenderTimeout, or left it 0
HeartbeatInitAny ==
    /\ HeartbeatObject
    /\ RenderTimeout \in 0..MaxTimeout

PredictorInit ==
    /\ EventHistory = <<>>
    /\ eventLog = <<>>
    /\ predicted = NotPredicted

\* no ImIsolatedScope yet; every window of the host owns a draw list
ScopeObject ==
    /\ DrawList = [w \in Windows |-> w]
    /\ allocated = Windows
    /\ released = {}
    /\ installed = {}
    /\ scopeAt = "none"
    /\ HasException = FALSE
    /\ OriginalDrawList = NULL
    /\ OriginalActiveId = 0

ScopeInit ==
    /\ ScopeObject
    /\ CurrentWindow = NULL
    /\ ActiveId = 0

\* the host is between or inside Begin/End and some widget may be active
ScopeInitAny ==
    /\ ScopeObject
    /\ CurrentWindow \in Windows \cup {NULL}
    /\ ActiveId \in 0..MaxActiveId

NoDeref == [Called |-> FALSE, Op |-> "none", Ptr |-> NULL, Default |-> NULL,
            Value |-> NULL]

\* "ImDefaultValueEngine* GImDefaultValueEngine = nullptr"
EngineInit ==
    /\ GImDefaultValueEngine = FALSE
    /\ MinimalFont = NULL
    /\ deref = NoDeref
    /\ lifecycle = [Op |-> "none", Flip |-> FALSE, Before |-> MetricsReset]

\* a graph in which the host has tracked up to two pointers: nothing, one
\* root, or a root and a child of it
GraphInitSome ==
    /\ \E p \in Ptrs, q \in PtrsOrNull :
          Nodes = TrackPointerResult(TrackPointerResult(<<>>, p, NULL, NULL).nodes,
                                     q, p, NULL).nodes
    /\ graphStatus = "ok"
    /\ eraseAtEnd = FALSE
    /\ findResult = NoCall

\* the node list after TrackPointer(i, parent[i]) for i = from..to
RECURSIVE TrackInOrder(_, _, _, _)
TrackInOrder(nodes, parent, from, to) ==
    IF from > to THEN nodes
    ELSE TrackInOrder(TrackPointerResult(nodes, from, parent[from], NULL).nodes,
                      parent, from + 1, to)

\* a forest built by tracking the pointers in order, each as a root or under
\* a pointer tracked before it
GraphInitTree ==
    /\ \E parent \in [1..NumTreePtrs -> 0..NumTreePtrs] :
          /\ \A i \in 1..NumTreePtrs : parent[i] < i
          /\ Nodes = TrackInOrder(<<>>, parent, 1, NumTreePtrs)
    /\ graphStatus = "ok"
    /\ eraseAtEnd = FALSE
    /\ findResult = NoCall

\* metrics after Reset, or after one UpdateException and a successful and a
\* failed UpdateHealing
MetricsInitSome ==
    \/ MetricsInit
    \/ \E handled \in BOOLEAN, detection_latency \in Latencies,
          healing_time \in {ToDouble(0), ToDouble(MaxLatency)} :
          /\ GImResilienceMetrics =
                UpdateHealingResult(
                    UpdateHealingResult(
                        UpdateExceptionResult(MetricsReset, handled, detection_latency),
                        TRUE, healing_time),
                    FALSE, healing_time)
          /\ latencyLog = <<detection_latency>>

\* thread 1 has run NewFrame and enqueued the first n commands
QueueInitSome ==
    \E n \in 0..(MaxCmds - 1) :
      \E prio \in [1..n -> Priorities] :
        \E q \in StdSort(prio, [i \in 1..n |-> i]) :
          /\ GImPointerGraph = [t \in Threads |-> t = 1]
          /\ GImHealingQueue = [t \in Threads |-> t = 1]
          /\ Queue = [t \in Threads |-> IF t = 1 THEN q ELSE <<>>]
          /\ cmds = [c \in Cmds |->
                       [Priority |-> IF c <= n THEN prio[c] ELSE Priority_Normal,
                        Succeeds |-> TRUE,
                        State |-> IF c <= n THEN "queued" ELSE "unallocated",
                        Executed |-> 0, Deleted |-> 0]]
          /\ pc = [t \in Threads |-> "idle"]
          /\ cmd = [t \in Threads |-> NULL]
          /\ success = [t \in Threads |-> FALSE]
          /\ loaded = [t \in Threads |-> 0]
          /\ dequeued = [t \in Threads |-> NULL]
          /\ trace = [t \in Threads |->
                        IF t = 1 THEN [i \in 1..n |-> [op |-> "Enqueue", cmd |-> i]]
                        ELSE <<>>]
          /\ run = [t \in Threads |-> NoRun]

\* thread 1 after its first NewFrame: an empty queue of its own
QueueInitFramed ==
    /\ GImPointerGraph = [t \in Threads |-> t = 1]
    /\ GImHealingQueue = [t \in Threads |-> t = 1]
    /\ Queue = [t \in Threads |-> <<>>]
    /\ cmds = [c \in Cmds |-> [Priority |-> Priority_Normal, Succeeds |-> TRUE,
                                State |-> "unallocated", Executed |-> 0, Deleted |-> 0]]
    /\ pc = [t \in Threads |-> "idle"]
    /\ cmd = [t \in Threads |-> NULL]
    /\ success = [t \in Threads |-> FALSE]
    /\ loaded = [t \in Threads |-> 0]
    /\ dequeued = [t \in Threads |-> NULL]
    /\ trace = [t \in Threads |-> <<>>]
    /\ run = [t \in Threads |-> NoRun]

\* every thread after its first NewFrame and one Enqueue on its own queue
QueueInitPerThread ==
    /\ GImPointerGraph = [t \in Threads |-> TRUE]
    /\ GImHealingQueue = [t \in Threads |-> TRUE]
    /\ Queue = [t \in Threads |-> IF t \in Cmds THEN <<t>> ELSE <<>>]
    /\ \E succeeds \in [Cmds -> BOOLEAN] :
          cmds = [c \in Cmds |->
                    IF c \in Threads
                    THEN [Priority |-> Priority_Normal, Succeeds |-> succeeds[c],
                          State |-> "queued", Executed |-> 0, Deleted |-> 0]
                    ELSE [Priority |-> Priority_Normal, Succeeds |-> TRUE,
                          State |-> "unallocated", Executed |-> 0, Deleted |-> 0]]
    /\ pc = [t \in Threads |-> "idle"]
    /\ cmd = [t \in Threads |-> NULL]
    /\ success = [t \in Threads |-> FALSE]
    /\ loaded = [t \in Threads |-> 0]
    /\ dequeued = [t \in Threads |-> NULL]
    /\ trace = [t \in Threads |->
                  IF t \in Cmds THEN <<[op |-> "Enqueue", cmd |-> t]>> ELSE <<>>]
    /\ run = [t \in Threads |-> NoRun]

NoCallOnQueue == [Op |-> "none", At |-> "idle", Cmd |-> NULL, Value |-> 0,
                  Expected |-> 0, EmptyAtReturn |-> TRUE]

\* nobody holds the mutex of the queue and no call on it is under way
LockInit ==
    /\ Mutex = NULL
    /\ call = [t \in Threads |-> NoCallOnQueue]
    /\ enqueuesCompleted = 0
    /\ dequeuesCompleted = 0
    /\ returnedCount = [c \in Cmds |-> 0]

HostInit ==
    /\ ScopeInit
    /\ EngineInit
    /\ LockInit
    /\ queuedAtNewFrame = [t \in Threads |-> FALSE]

(***************************************************************************)
(* Actions of the pointer graph.                                           *)
(***************************************************************************)
exceptGraph == <<metricsVars, queueVars, fontVars, heartbeatVars, gTime, predictorVars,
                 hostVars>>

ApplyGraphOutcome(o) ==
    /\ Nodes' = o.nodes
    /\ graphStatus' = o.status
    /\ eraseAtEnd' = (eraseAtEnd \/ o.atEnd)
    /\ findResult' = NoCall
    /\ UNCHANGED exceptGraph

TrackPointer ==
    /\ graphStatus = "ok"
    /\ \E ptr \in PtrsOrNull, parent \in PtrsOrNull, name \in Names :
          ApplyGraphOutcome(TrackPointerResult(Nodes, ptr, parent, name))

UntrackPointer ==
    /\ graphStatus = "ok"
    /\ \E ptr \in PtrsOrNull :
          \E o \in UntrackPointerResults(Nodes, ptr) : ApplyGraphOutcome(o)

UpdateDependency ==
    /\ graphStatus = "ok"
    /\ \E ptr \in PtrsOrNull, new_parent \in PtrsOrNull :
          \E o \in UpdateDependencyResults(Nodes, ptr, new_parent) :
              ApplyGraphOutcome(o)

FindDependentsCall ==
    /\ graphStatus = "ok"
    /\ \E root \in PtrsOrNull :
          LET r == FindDependents(Nodes, root)
          IN  /\ findResult' = [Root |-> root, Called |-> TRUE,
                                Terminated |-> r.Terminated,
                                Dependents |-> r.Dependents]
              /\ graphStatus' = IF r.Terminated THEN "ok" ELSE "hung"
    /\ UNCHANGED <<Nodes, eraseAtEnd>>
    /\ UNCHANGED exceptGraph

(***************************************************************************)
(* Actions of the metrics.                                                 *)
(***************************************************************************)
exceptMetrics == <<graphVars, queueVars, fontVars, heartbeatVars, gTime, predictorVars,
                   hostVars>>

\* GImResilienceMetrics.Reset()
ResetMetrics ==
    /\ GImResilienceMetrics' = MetricsReset
    /\ latencyLog' = <<>>
    /\ UNCHANGED exceptMetrics

UpdateException ==
    /\ GImResilienceMetrics.ExceptionCount < MaxExceptions
    /\ \E handled \in BOOLEAN, detection_latency \in Latencies :
          /\ GImResilienceMetrics' =
                UpdateExceptionResult(GImResilienceMetrics, handled, detection_latency)
          /\ latencyLog' = Append(latencyLog, detection_latency)
    /\ UNCHANGED exceptMetrics

UpdateHealing ==
    /\ GImResilienceMetrics.HealingSuccessCount
         + GImResilienceMetrics.HealingFailedCount < MaxHealings
    /\ \E ok \in BOOLEAN, healing_time \in {ToDouble(0), ToDouble(MaxLatency)} :
          GImResilienceMetrics' =
              UpdateHealingResult(GImResilienceMetrics, ok, healing_time)
    /\ UNCHANGED latencyLog
    /\ UNCHANGED exceptMetrics

\* ImResilienceMetrics::UpdateResourceLeak
UpdateResourceLeak ==
    /\ GImResilienceMetrics.TotalResourceLeak < MaxLeak
    /\ \E leak_size \in 1..MaxLeak :
          GImResilienceMetrics' =
              [GImResilienceMetrics EXCEPT !.TotalResourceLeak = @ + leak_size]
    /\ UNCHANGED latencyLog
    /\ UNCHANGED exceptMetrics

\* ImResilienceMetrics::UpdateFrameDrop
UpdateFrameDrop ==
    /\ GImResilienceMetrics.FrameDropCount < MaxFrameDrops
    /\ GImResilienceMetrics' = [GImResilienceMetrics EXCEPT !.FrameDropCount = @ + 1]
    /\ UNCHANGED latencyLog
    /\ UNCHANGED exceptMetrics

(***************************************************************************)
(* Actions of the render heartbeat and of the timeout predictor.           *)
(***************************************************************************)
exceptHeartbeat == <<graphVars, metricsVars, queueVars, fontVars, predictorVars,
                     hostVars>>

StartSession ==
    /\ \E session_name \in Names :
          /\ CurrentSession' = session_name
          /\ StartTime' = gTime
          /\ TimeoutSec' = StartSessionTimeout(TimeoutSec, RenderTimeout)
    /\ sessionOpen' = TRUE
    /\ checked' = NotChecked
    /\ UNCHANGED <<RenderTimeout, gTime, custom>>
    /\ UNCHANGED exceptHeartbeat

CheckTimeout ==
    /\ checked' = [Called |-> TRUE,
                   Value |-> CheckTimeoutResult(CurrentSession, StartTime,
                                                TimeoutSec, gTime)]
    /\ UNCHANGED <<CurrentSession, StartTime, TimeoutSec, RenderTimeout, sessionOpen,
                   gTime, custom>>
    /\ UNCHANGED exceptHeartbeat

EndSession ==
    /\ CurrentSession' = NULL
    /\ sessionOpen' = FALSE
    /\ checked' = NotChecked
    /\ UNCHANGED <<StartTime, TimeoutSec, RenderTimeout, gTime, custom>>
    /\ UNCHANGED exceptHeartbeat

SetTimeout ==
    /\ \E timeout_sec \in 0..MaxTimeout :
          /\ TimeoutSec' = timeout_sec
          /\ custom' = [Set |-> TRUE, Value |-> timeout_sec]
    /\ checked' = NotChecked
    /\ UNCHANGED <<CurrentSession, StartTime, RenderTimeout, sessionOpen, gTime>>
    /\ UNCHANGED exceptHeartbeat

\* the host's clock g.Time moves on
AdvanceTime ==
    /\ gTime < MaxTime
    /\ gTime' = gTime + 1
    /\ checked' = NotChecked
    /\ predicted' = NotPredicted
    /\ UNCHANGED <<CurrentSession, StartTime, TimeoutSec, RenderTimeout, sessionOpen,
                   custom, EventHistory, eventLog>>
    /\ UNCHANGED <<graphVars, metricsVars, queueVars, fontVars, hostVars>>

exceptPredictor == <<graphVars, metricsVars, queueVars, fontVars, heartbeatVars, gTime,
                     hostVars>>

RecordEvent ==
    /\ Len(EventHistory) < MaxEvents
    /\ \E event_type \in Types, timed_out \in BOOLEAN :
          /\ EventHistory' = RecordEventResult(EventHistory, event_type, timed_out, gTime)
          /\ eventLog' = Append(eventLog, ImTimeoutEvent(event_type, timed_out, gTime))
    /\ predicted' = NotPredicted
    /\ UNCHANGED exceptPredictor

PredictChainProbabilityCall ==
    /\ \E next_event_type \in Types :
          predicted' = [Called |-> TRUE, Next |-> next_event_type,
                        Value |-> PredictChainProbability(EventHistory, next_event_type)]
    /\ UNCHANGED <<EventHistory, eventLog>>
    /\ UNCHANGED exceptPredictor

\* ImTimeoutPredictor::Reset
ResetPredictor ==
    /\ EventHistory' = <<>>
    /\ eventLog' = <<>>
    /\ predicted' = NotPredicted
    /\ UNCHANGED exceptPredictor

\* a long run of the host: in every tick of the clock one RecordEvent, of a
\* routine event (the first type, not timed out) while the history is short
\* of its limit and of any event from there on
RecordEventPerTick ==
    /\ Len(eventLog) < MaxHistorySize + MaxOverflow
    /\ \E event_type \in Types, timed_out \in BOOLEAN :
          /\ Len(eventLog) < MaxHistorySize - 1 => (event_type = 1 /\ ~timed_out)
          /\ EventHistory' = RecordEventResult(EventHistory, event_type, timed_out, gTime)
          /\ eventLog' = Append(eventLog, ImTimeoutEvent(event_type, timed_out, gTime))
    /\ gTime' = gTime + 1
    /\ predicted' = NotPredicted
    /\ UNCHANGED <<graphVars, metricsVars, queueVars, fontVars, heartbeatVars, hostVars>>

(***************************************************************************)
(* Frame hooks, healing queue and the host's render loop.                  *)
(***************************************************************************)
\* ImGui_ImplResilience_NewFrame on thread t, at frame number `frame'
ImGui_ImplResilience_NewFrame(t) ==
    LET f == AutoFontSwitch(g_AutoFontSwitchEnabled, g_CurrentFontIndex,
                            g_LastFontSwitchTime, gFont, ioTime, hasAtlas, fontsSize)
    IN  /\ GImPointerGraph' = [GImPointerGraph EXCEPT ![t] = TRUE]
        /\ GImHealingQueue' = [GImHealingQueue EXCEPT ![t] = TRUE]
        /\ queuedAtNewFrame' = [queuedAtNewFrame EXCEPT
                                   ![t] = GImHealingQueue[t] /\ Queue[t] # <<>>]
        /\ g_CurrentFontIndex' = f.Index
        /\ g_LastFontSwitchTime' = f.Last
        /\ gFont' = f.Font
        /\ switchFrames' = IF f.Index # g_CurrentFontIndex
                           THEN Append(switchFrames, frame) ELSE switchFrames

exceptQueue == <<graphVars, metricsVars, heartbeatVars, gTime, predictorVars, hostVars>>

exceptFrameHook == <<graphVars, metricsVars, heartbeatVars, gTime, predictorVars,
                     scopeVars, engineVars, lockVars>>

\* NewFrame that allocates the healing queue without looking at the pointer
NewFrameReallocates(t) ==
    /\ pc[t] = "idle"
    /\ ImGui_ImplResilience_NewFrame(t)
    /\ Queue' = [Queue EXCEPT ![t] = <<>>]
    /\ UNCHANGED <<cmds, pc, cmd, success, loaded, dequeued, trace, run>>
    /\ UNCHANGED <<g_AutoFontSwitchEnabled, ioTime, hasAtlas, fontsSize, frame, at>>
    /\ UNCHANGED exceptFrameHook

\* a thread outside the render loop calls the frame hook
NewFrame(t) ==
    /\ pc[t] = "idle"
    /\ ImGui_ImplResilience_NewFrame(t)
    /\ UNCHANGED <<Queue, cmds, pc, cmd, success, loaded, dequeued, trace, run>>
    /\ UNCHANGED <<g_AutoFontSwitchEnabled, ioTime, hasAtlas, fontsSize, frame, at>>
    /\ UNCHANGED exceptFrameHook

\* ImGui_ImplResilience_EndFrame on thread t: an empty body
EndFrame(t) ==
    /\ pc[t] = "idle"
    /\ UNCHANGED <<queueVars, fontVars, exceptQueue>>

\* GImHealingQueue->Enqueue(IM_NEW(...)) with a command of any priority
Enqueue(t) ==
    /\ pc[t] = "idle"
    /\ GImHealingQueue[t]
    /\ \E c \in Cmds, priority \in Priorities, succeeds \in BOOLEAN :
          /\ cmds[c].State = "unallocated"
          /\ \A b \in Cmds : b < c => cmds[b].State # "unallocated"
          /\ cmds' = [cmds EXCEPT ![c] = [@ EXCEPT !.Priority = priority,
                                                   !.Succeeds = succeeds,
                                                   !.State = "queued"]]
          /\ \E q \in EnqueueResults([PriorityOf EXCEPT ![c] = priority], Queue[t], c) :
                Queue' = [Queue EXCEPT ![t] = q]
          /\ trace' = [trace EXCEPT ![t] = Append(@, [op |-> "Enqueue", cmd |-> c])]
    /\ UNCHANGED <<GImPointerGraph, GImHealingQueue, pc, cmd, success, loaded,
                   dequeued, run>>
    /\ UNCHANGED <<fontVars, exceptQueue>>

\* GImHealingQueue->Dequeue() called by the thread itself
Dequeue(t) ==
    /\ pc[t] = "idle"
    /\ GImHealingQueue[t]
    /\ LET r == DequeueResult(Queue[t])
       IN  /\ Queue' = [Queue EXCEPT ![t] = r.queue]
           /\ dequeued' = [dequeued EXCEPT ![t] = r.cmd]
           /\ IF r.cmd = NULL
              THEN UNCHANGED <<cmds, trace>>
              ELSE /\ cmds' = [cmds EXCEPT ![r.cmd].State = "returned"]
                   /\ trace' = [trace EXCEPT
                                   ![t] = Append(@, [op |-> "Dequeue", cmd |-> r.cmd])]
    /\ UNCHANGED <<GImPointerGraph, GImHealingQueue, pc, cmd, success, loaded, run>>
    /\ UNCHANGED <<fontVars, exceptQueue>>

\* ImGuiResilience::Update: enters ExecuteAll when the thread has a queue
Update(t) ==
    /\ pc[t] = "idle"
    /\ IF GImHealingQueue[t]
       THEN /\ pc' = [pc EXCEPT ![t] = "dequeue"]
            /\ run' = [run EXCEPT
                          ![t] = [Active |-> TRUE, Ran |-> TRUE,
                                  StartQueue |-> Queue[t],
                                  StartSuccess |-> GImResilienceMetrics.HealingSuccessCount,
                                  StartFailed |-> GImResilienceMetrics.HealingFailedCount,
                                  Enqueues |-> EnqueueCount(trace[t]),
                                  Executed |-> <<>>]]
       ELSE UNCHANGED <<pc, run>>
    /\ UNCHANGED <<GImPointerGraph, GImHealingQueue, Queue, cmds, cmd, success, loaded,
                   dequeued, trace>>
    /\ UNCHANGED <<fontVars, exceptQueue>>

\* ExecuteAll: "while ((cmd = Dequeue()) != nullptr)"
ExecuteAllDequeue(t) ==
    /\ pc[t] = "dequeue"
    /\ LET r == DequeueResult(Queue[t])
       IN  /\ Queue' = [Queue EXCEPT ![t] = r.queue]
           /\ cmd' = [cmd EXCEPT ![t] = r.cmd]
           /\ IF r.cmd = NULL
              THEN /\ pc' = [pc EXCEPT ![t] = "idle"]
                   /\ run' = [run EXCEPT ![t].Active = FALSE]
                   /\ UNCHANGED cmds
              ELSE /\ pc' = [pc EXCEPT ![t] = "execute"]
                   /\ cmds' = [cmds EXCEPT ![r.cmd].State = "taken"]
                   /\ UNCHANGED run
    /\ UNCHANGED <<GImPointerGraph, GImHealingQueue, success, loaded, dequeued, trace>>
    /\ UNCHANGED <<fontVars, exceptQueue>>

\* ExecuteAll: "bool success = cmd->Execute()"
ExecuteAllExecute(t) ==
    /\ pc[t] = "execute"
    /\ success' = [success EXCEPT ![t] = cmds[cmd[t]].Succeeds]
    /\ cmds' = [cmds EXCEPT ![cmd[t]].Executed = @ + 1]
    /\ run' = [run EXCEPT ![t].Executed = Append(@, cmd[t])]
    /\ pc' = [pc EXCEPT ![t] = "delete"]
    /\ UNCHANGED <<GImPointerGraph, GImHealingQueue, Queue, cmd, loaded, dequeued, trace>>
    /\ UNCHANGED <<fontVars, exceptQueue>>

\* ExecuteAll: "IM_DELETE(cmd)"
ExecuteAllDelete(t) ==
    /\ pc[t] = "delete"
    /\ cmds' = [cmds EXCEPT ![cmd[t]].State = "deleted", ![cmd[t]].Deleted = @ + 1]
    /\ pc' = [pc EXCEPT ![t] = "load"]
    /\ UNCHANGED <<GImPointerGraph, GImHealingQueue, Queue, cmd, success, loaded,
                   dequeued, trace, run>>
    /\ UNCHANGED <<fontVars, exceptQueue>>

\* UpdateHealing(success, 0.0): the read of "HealingSuccessCount++" or
\* "HealingFailedCount++"; the counters are plain ints shared by all threads
UpdateHealingLoad(t) ==
    /\ pc[t] = "load"
    /\ loaded' = [loaded EXCEPT
                     ![t] = IF success[t]
                            THEN GImResilienceMetrics.HealingSuccessCount
                            ELSE GImResilienceMetrics.HealingFailedCount]
    /\ pc' = [pc EXCEPT ![t] = "store"]
    /\ UNCHANGED <<GImPointerGraph, GImHealingQueue, Queue, cmds, cmd, success,
                   dequeued, trace, run>>
    /\ UNCHANGED <<fontVars, exceptQueue>>

\* UpdateHealing(success, 0.0): the write of the incremented counter and the
\* update of the average
UpdateHealingStore(t) ==
    /\ pc[t] = "store"
    /\ GImResilienceMetrics' =
          UpdateHealingResult(
              IF success[t]
              THEN [GImResilienceMetrics EXCEPT !.HealingSuccessCount = loaded[t]]
              ELSE [GImResilienceMetrics EXCEPT !.HealingFailedCount = loaded[t]],
              success[t], Zero)
    /\ pc' = [pc EXCEPT ![t] = "dequeue"]
    /\ UNCHANGED <<latencyLog, queueVarsButPc>>
    /\ UNCHANGED <<fontVars, graphVars, heartbeatVars, gTime, predictorVars, hostVars>>

\* ImHealingQueue::~ImHealingQueue on the queue of thread t, run by its owner
\* between calls: IM_DELETE of every element, then Queue.clear()
ImHealingQueueDtor(t) ==
    /\ pc[t] = "idle"
    /\ GImHealingQueue[t]
    /\ cmds' = [c \in Cmds |->
                  LET n == Cardinality({i \in 1..Len(Queue[t]) : Queue[t][i] = c})
                  IN  IF n = 0 THEN cmds[c]
                      ELSE [cmds[c] EXCEPT !.State = "destroyed", !.Deleted = @ + n]]
    /\ Queue' = [Queue EXCEPT ![t] = <<>>]
    /\ GImHealingQueue' = [GImHealingQueue EXCEPT ![t] = FALSE]
    /\ UNCHANGED <<GImPointerGraph, pc, cmd, success, loaded, dequeued, trace, run>>
    /\ UNCHANGED <<fontVars, exceptQueue>>

\* ImGui_ImplResilience_SetFontSwitchMode, called once before the render loop
SetFontSwitchMode ==
    /\ at = "mode"
    /\ \E auto_switch \in BOOLEAN : g_AutoFontSwitchEnabled' = auto_switch
    /\ at' = "time"
    /\ UNCHANGED <<g_CurrentFontIndex, g_LastFontSwitchTime, ioTime, hasAtlas,
                   fontsSize, gFont, frame, switchFrames>>
    /\ UNCHANGED <<queueVars, exceptQueue>>

\* the render loop: "io.Time = frame * 0.5f"
SetTime ==
    /\ at = "time"
    /\ frame < MaxFrames
    /\ ioTime' = frame
    /\ at' = "newframe"
    /\ UNCHANGED <<g_AutoFontSwitchEnabled, g_CurrentFontIndex, g_LastFontSwitchTime,
                   hasAtlas, fontsSize, gFont, frame, switchFrames>>
    /\ UNCHANGED <<queueVars, exceptQueue>>

\* the render loop: "ImGui_ImplResilience_NewFrame()" on the render thread
RenderNewFrame ==
    /\ at = "newframe"
    /\ ImGui_ImplResilience_NewFrame(1)
    /\ at' = "endframe"
    /\ UNCHANGED <<Queue, cmds, pc, cmd, success, loaded, dequeued, trace, run>>
    /\ UNCHANGED <<g_AutoFontSwitchEnabled, ioTime, hasAtlas, fontsSize, frame>>
    /\ UNCHANGED exceptFrameHook

\* the render loop: "ImGui_ImplResilience_EndFrame()", which keeps all state,
\* and the loop's "frame++"
RenderEndFrame ==
    /\ at = "endframe"
    /\ frame' = frame + 1
    /\ at' = "time"
    /\ UNCHANGED <<g_AutoFontSwitchEnabled, g_CurrentFontIndex, g_LastFontSwitchTime,
                   ioTime, hasAtlas, fontsSize, gFont, switchFrames>>
    /\ UNCHANGED <<queueVars, exceptQueue>>

\* after the loop: "ImGui_ImplResilience_SetFontSwitchMode(false)"
LeaveLoop ==
    /\ at = "time"
    /\ frame = MaxFrames
    /\ g_AutoFontSwitchEnabled' = FALSE
    /\ at' = "done"
    /\ UNCHANGED <<g_CurrentFontIndex, g_LastFontSwitchTime, ioTime, hasAtlas,
                   fontsSize, gFont, frame, switchFrames>>
    /\ UNCHANGED <<queueVars, exceptQueue>>

(***************************************************************************)
(* ImDefaultValueEngine and ImSafeDeref. A font pointer is NULL, the       *)
(* position (from 1) of a font in g.IO.Fonts->Fonts, or one of the static  *)
(* objects below.                                                          *)
(***************************************************************************)
\* "static ImFont DefaultFont" of GetDefaultFont
GetDefaultFont_DefaultFont == -1
\* "static ImFont DefaultFont" of ImSafeDeref<ImFont>
ImSafeDeref_DefaultFont == -2
\* "static T DefaultInstance" of ImDefaultValueEngine::GetDefault<T>
GetDefault_DefaultInstance == -3
\* "static T DefaultInstance" of ImSafeDeref<T>
ImSafeDeref_DefaultInstance == -4

\* the pointers handed to ImSafeDeref
Pointers == NULL..NumPtrs

\* GetDefaultFont without its last resort
GetDefaultFontNoLastResort(minimal, atlas, size) ==
    IF minimal # NULL THEN minimal
    ELSE IF atlas /\ size > 0 THEN 1
    ELSE NULL

\* ImDefaultValueEngine::GetDefaultFont
GetDefaultFont(minimal, atlas, size) ==
    IF minimal # NULL THEN minimal
    ELSE IF atlas /\ size > 0 THEN 1
    ELSE GetDefaultFont_DefaultFont

\* ImSafeDeref<T>(ptr, default_ptr)
ImSafeDeref(ptr, default_ptr, engine) ==
    IF ptr # NULL THEN ptr
    ELSE IF default_ptr # NULL THEN default_ptr
    ELSE IF engine THEN GetDefault_DefaultInstance
    ELSE ImSafeDeref_DefaultInstance

\* ImSafeDeref<ImFont>(ptr, default_ptr)
ImSafeDerefFont(ptr, default_ptr, engine, minimal, atlas, size) ==
    IF ptr # NULL THEN ptr
    ELSE IF default_ptr # NULL THEN default_ptr
    ELSE IF engine THEN GetDefaultFont(minimal, atlas, size)
    ELSE IF atlas /\ size > 0 THEN 1
    ELSE ImSafeDeref_DefaultFont

exceptEngine == <<graphVars, queueVars, heartbeatVars, gTime, predictorVars, scopeVars,
                  lockVars, queuedAtNewFrame>>

fontVarsButSize == <<g_AutoFontSwitchEnabled, g_CurrentFontIndex, g_LastFontSwitchTime,
                     ioTime, hasAtlas, gFont, frame, at, switchFrames>>

\* Initialize without "GImResilienceMetrics.Reset()"
InitializeWithoutReset ==
    /\ hasAtlas => fontsSize < MaxFonts
    /\ GImDefaultValueEngine' = TRUE
    /\ MinimalFont' = IF hasAtlas THEN fontsSize + 1 ELSE NULL
    /\ fontsSize' = IF hasAtlas THEN fontsSize + 1 ELSE fontsSize
    /\ deref' = NoDeref
    /\ lifecycle' = [Op |-> "Initialize", Flip |-> ~lifecycle.Flip,
                     Before |-> GImResilienceMetrics]
    /\ UNCHANGED <<fontVarsButSize, metricsVars>>
    /\ UNCHANGED exceptEngine

\* ImGuiResilience::Initialize, with the ImDefaultValueEngine constructor
Initialize ==
    /\ hasAtlas => fontsSize < MaxFonts
    /\ GImDefaultValueEngine' = TRUE
    /\ MinimalFont' = IF hasAtlas THEN fontsSize + 1 ELSE NULL
    /\ fontsSize' = IF hasAtlas THEN fontsSize + 1 ELSE fontsSize
    /\ GImResilienceMetrics' = MetricsReset
    /\ latencyLog' = <<>>
    /\ deref' = NoDeref
    /\ lifecycle' = [Op |-> "Initialize", Flip |-> ~lifecycle.Flip,
                     Before |-> GImResilienceMetrics]
    /\ UNCHANGED fontVarsButSize
    /\ UNCHANGED exceptEngine

\* ImGuiResilience::Shutdown
Shutdown ==
    /\ GImDefaultValueEngine' = FALSE
    /\ MinimalFont' = NULL
    /\ deref' = NoDeref
    /\ lifecycle' = [Op |-> "Shutdown", Flip |-> ~lifecycle.Flip,
                     Before |-> GImResilienceMetrics]
    /\ UNCHANGED <<fontVars, metricsVars>>
    /\ UNCHANGED exceptEngine

\* the host creates the font atlas g.IO.Fonts
CreateFontAtlas ==
    /\ ~hasAtlas
    /\ hasAtlas' = TRUE
    /\ deref' = NoDeref
    /\ UNCHANGED <<g_AutoFontSwitchEnabled, g_CurrentFontIndex, g_LastFontSwitchTime,
                   ioTime, fontsSize, gFont, frame, at, switchFrames>>
    /\ UNCHANGED <<GImDefaultValueEngine, MinimalFont, lifecycle, metricsVars>>
    /\ UNCHANGED exceptEngine

\* the host registers a font: "io.Fonts->AddFontDefault()"
AddFont ==
    /\ hasAtlas
    /\ fontsSize < MaxFonts
    /\ fontsSize' = fontsSize + 1
    /\ deref' = NoDeref
    /\ UNCHANGED fontVarsButSize
    /\ UNCHANGED <<GImDefaultValueEngine, MinimalFont, lifecycle, metricsVars>>
    /\ UNCHANGED exceptEngine

\* GImDefaultValueEngine->GetDefaultFont()
GetDefaultFontCall ==
    /\ GImDefaultValueEngine
    /\ deref' = [Called |-> TRUE, Op |-> "GetDefaultFont", Ptr |-> NULL,
                 Default |-> NULL,
                 Value |-> GetDefaultFont(MinimalFont, hasAtlas, fontsSize)]
    /\ UNCHANGED <<GImDefaultValueEngine, MinimalFont, lifecycle, fontVars, metricsVars>>
    /\ UNCHANGED exceptEngine

\* ImSafeDeref(ptr, default_ptr) on some object type
ImSafeDerefCall ==
    /\ \E ptr \in Pointers, default_ptr \in Pointers :
          deref' = [Called |-> TRUE, Op |-> "ImSafeDeref", Ptr |-> ptr,
                    Default |-> default_ptr,
                    Value |-> ImSafeDeref(ptr, default_ptr, GImDefaultValueEngine)]
    /\ UNCHANGED <<GImDefaultValueEngine, MinimalFont, lifecycle, fontVars, metricsVars>>
    /\ UNCHANGED exceptEngine

\* ImSafeDeref(ptr, default_ptr) on fonts
ImSafeDerefFontCall ==
    /\ \E ptr \in Pointers, default_ptr \in Pointers :
          deref' = [Called |-> TRUE, Op |-> "ImSafeDerefFont", Ptr |-> ptr,
                    Default |-> default_ptr,
                    Value |-> ImSafeDerefFont(ptr, default_ptr, GImDefaultValueEngine,
                                              MinimalFont, hasAtlas, fontsSize)]
    /\ UNCHANGED <<GImDefaultValueEngine, MinimalFont, lifecycle, fontVars, metricsVars>>
    /\ UNCHANGED exceptEngine

(***************************************************************************)
(* ImIsolatedScope and the host state it saves and restores.               *)
(***************************************************************************)
exceptScope == <<graphVars, metricsVars, queueVars, fontVars, heartbeatVars, gTime,
                 predictorVars, engineVars, lockVars, queuedAtNewFrame>>

\* the host acted: a destroyed scope is no longer the last thing that happened
AfterHost == IF scopeAt = "destroyed" THEN "none" ELSE scopeAt

\* ImIsolatedScope::ImIsolatedScope
ImIsolatedScopeCtor ==
    /\ scopeAt # "open"
    /\ HasException' = FALSE
    /\ OriginalDrawList' = IF CurrentWindow # NULL THEN DrawList[CurrentWindow] ELSE NULL
    /\ OriginalActiveId' = ActiveId
    /\ scopeAt' = "open"
    /\ installed' = {}
    /\ UNCHANGED <<CurrentWindow, DrawList, ActiveId, allocated, released>>
    /\ UNCHANGED exceptScope

\* ImIsolatedScope::MarkAsException
MarkAsException ==
    /\ scopeAt = "open"
    /\ HasException' = TRUE
    /\ UNCHANGED <<CurrentWindow, DrawList, ActiveId, allocated, released, installed,
                   scopeAt, OriginalDrawList, OriginalActiveId>>
    /\ UNCHANGED exceptScope

\* ImIsolatedScope::IsValid
IsValid(has_exception) == ~has_exception

\* a destructor that rolls back without looking at HasException
ImIsolatedScopeDtorAlwaysRestores ==
    /\ scopeAt = "open"
    /\ scopeAt' = "destroyed"
    /\ ActiveId' = 0
    /\ IF /\ OriginalDrawList # NULL
          /\ CurrentWindow # NULL
          /\ DrawList[CurrentWindow] # OriginalDrawList
       THEN /\ released' = released \cup {DrawList[CurrentWindow]}
            /\ DrawList' = [DrawList EXCEPT ![CurrentWindow] = OriginalDrawList]
       ELSE UNCHANGED <<released, DrawList>>
    /\ UNCHANGED <<CurrentWindow, allocated, installed, HasException, OriginalDrawList,
                   OriginalActiveId>>
    /\ UNCHANGED exceptScope

\* ImIsolatedScope::~ImIsolatedScope
ImIsolatedScopeDtor ==
    /\ scopeAt = "open"
    /\ scopeAt' = "destroyed"
    /\ IF HasException
       THEN /\ ActiveId' = 0
            /\ IF /\ OriginalDrawList # NULL
                  /\ CurrentWindow # NULL
                  /\ DrawList[CurrentWindow] # OriginalDrawList
               THEN /\ released' = released \cup {DrawList[CurrentWindow]}
                    /\ DrawList' = [DrawList EXCEPT ![CurrentWindow] = OriginalDrawList]
               ELSE UNCHANGED <<released, DrawList>>
       ELSE UNCHANGED <<ActiveId, released, DrawList>>
    /\ UNCHANGED <<CurrentWindow, allocated, installed, HasException, OriginalDrawList,
                   OriginalActiveId>>
    /\ UNCHANGED exceptScope

\* the host's Begin/End make another window, or none, the current one
SetCurrentWindow ==
    /\ \E w \in Windows \cup {NULL} :
          /\ w # CurrentWindow
          /\ CurrentWindow' = w
    /\ scopeAt' = AfterHost
    /\ UNCHANGED <<DrawList, ActiveId, allocated, released, installed, HasException,
                   OriginalDrawList, OriginalActiveId>>
    /\ UNCHANGED exceptScope

\* code inside the scope gives the current window a newly created draw list
InstallDrawList ==
    /\ scopeAt = "open"
    /\ CurrentWindow # NULL
    /\ \E d \in DrawLists \ allocated :
          /\ DrawList' = [DrawList EXCEPT ![CurrentWindow] = d]
          /\ allocated' = allocated \cup {d}
          /\ installed' = installed \cup {d}
    /\ UNCHANGED <<CurrentWindow, ActiveId, released, scopeAt, HasException,
                   OriginalDrawList, OriginalActiveId>>
    /\ UNCHANGED exceptScope

\* a widget becomes active, or the active one is cleared
SetActiveID ==
    /\ \E id \in 0..MaxActiveId :
          /\ id # ActiveId
          /\ ActiveId' = id
    /\ scopeAt' = AfterHost
    /\ UNCHANGED <<CurrentWindow, DrawList, allocated, released, installed,
                   HasException, OriginalDrawList, OriginalActiveId>>
    /\ UNCHANGED exceptScope

(***************************************************************************)
(* Calls of several threads on one ImHealingQueue, the queue of thread 1,  *)
(* statement by statement.                                                 *)
(***************************************************************************)
exceptLock == <<graphVars, metricsVars, fontVars, heartbeatVars, gTime, predictorVars,
                scopeVars, engineVars, queuedAtNewFrame>>

queueVarsButQueue == <<GImPointerGraph, GImHealingQueue, pc, cmd, success, loaded,
                       dequeued, trace, run>>

Returned(t) == call[t].At \in {"idle", "done"}

\* thread t calls Enqueue(IM_NEW(...)) with a command of any priority
CallEnqueue(t) ==
    /\ Returned(t)
    /\ GImHealingQueue[1]
    /\ \E c \in Cmds, priority \in Priorities :
          /\ cmds[c].State = "unallocated"
          /\ \A b \in Cmds : b < c => cmds[b].State # "unallocated"
          /\ cmds' = [cmds EXCEPT ![c] = [@ EXCEPT !.Priority = priority,
                                                   !.State = "allocated"]]
          /\ call' = [call EXCEPT ![t] = [NoCallOnQueue EXCEPT !.Op = "Enqueue",
                                                               !.At = "lock",
                                                               !.Cmd = c]]
    /\ UNCHANGED <<Queue, Mutex, enqueuesCompleted, dequeuesCompleted, returnedCount>>
    /\ UNCHANGED <<queueVarsButQueue, exceptLock>>

\* thread t calls Dequeue() or GetSize()
CallDequeueOrGetSize(t) ==
    /\ Returned(t)
    /\ GImHealingQueue[1]
    /\ \E op \in {"Dequeue", "GetSize"} :
          call' = [call EXCEPT ![t] = [NoCallOnQueue EXCEPT !.Op = op, !.At = "lock"]]
    /\ UNCHANGED <<Queue, cmds, Mutex, enqueuesCompleted, dequeuesCompleted,
                   returnedCount>>
    /\ UNCHANGED <<queueVarsButQueue, exceptLock>>

\* the first statement of the three methods
Lock(t) ==
    /\ call[t].At = "lock"
    /\ LockGuard(Mutex)
    /\ Mutex' = t
    /\ call' = [call EXCEPT ![t].At = CASE call[t].Op = "Enqueue" -> "push_back"
                                        [] call[t].Op = "Dequeue" -> "back"
                                        [] OTHER -> "Size"]
    /\ UNCHANGED <<Queue, cmds, enqueuesCompleted, dequeuesCompleted, returnedCount>>
    /\ UNCHANGED <<queueVarsButQueue, exceptLock>>

\* Enqueue: "Queue.push_back(cmd)"
EnqueuePushBack(t) ==
    /\ call[t].At = "push_back"
    /\ Queue' = [Queue EXCEPT ![1] = Append(@, call[t].Cmd)]
    /\ cmds' = [cmds EXCEPT ![call[t].Cmd].State = "queued"]
    /\ call' = [call EXCEPT ![t].At = "sort"]
    /\ UNCHANGED <<Mutex, enqueuesCompleted, dequeuesCompleted, returnedCount>>
    /\ UNCHANGED <<queueVarsButQueue, exceptLock>>

\* Enqueue: "std::sort(Queue.begin(), Queue.end(), ...)"
EnqueueSort(t) ==
    /\ call[t].At = "sort"
    /\ \E q \in StdSort(PriorityOf, Queue[1]) : Queue' = [Queue EXCEPT ![1] = q]
    /\ call' = [call EXCEPT ![t].At = "return"]
    /\ UNCHANGED <<cmds, Mutex, enqueuesCompleted, dequeuesCompleted, returnedCount>>
    /\ UNCHANGED <<queueVarsButQueue, exceptLock>>

\* Dequeue: "if (Queue.empty()) return nullptr; cmd = Queue.back()"
DequeueBack(t) ==
    /\ call[t].At = "back"
    /\ call' = [call EXCEPT ![t].Cmd = DequeueResult(Queue[1]).cmd,
                            ![t].At = IF Queue[1] = <<>> THEN "return" ELSE "pop_back"]
    /\ UNCHANGED <<Queue, cmds, Mutex, enqueuesCompleted, dequeuesCompleted,
                   returnedCount>>
    /\ UNCHANGED <<queueVarsButQueue, exceptLock>>

\* Dequeue: "Queue.pop_back()"
DequeuePopBack(t) ==
    /\ call[t].At = "pop_back"
    /\ Queue' = [Queue EXCEPT ![1] = DequeueResult(@).queue]
    /\ call' = [call EXCEPT ![t].At = "return"]
    /\ UNCHANGED <<cmds, Mutex, enqueuesCompleted, dequeuesCompleted, returnedCount>>
    /\ UNCHANGED <<queueVarsButQueue, exceptLock>>

\* GetSize: "return Queue.Size"
GetSizeRead(t) ==
    /\ call[t].At = "Size"
    /\ call' = [call EXCEPT ![t].Value = GetSize(Queue[1]), ![t].At = "return"]
    /\ UNCHANGED <<Queue, cmds, Mutex, enqueuesCompleted, dequeuesCompleted,
                   returnedCount>>
    /\ UNCHANGED <<queueVarsButQueue, exceptLock>>

\* the call returns and the lock_guard releases the mutex
Return(t) ==
    /\ call[t].At = "return"
    /\ Mutex' = IF Mutex = t THEN NULL ELSE Mutex
    /\ LET c    == call[t].Cmd
           enqs == IF call[t].Op = "Enqueue"
                   THEN enqueuesCompleted + 1 ELSE enqueuesCompleted
           deqs == IF call[t].Op = "Dequeue" /\ c # NULL
                   THEN dequeuesCompleted + 1 ELSE dequeuesCompleted
       IN  /\ enqueuesCompleted' = enqs
           /\ dequeuesCompleted' = deqs
           /\ IF call[t].Op = "Dequeue" /\ c # NULL
              THEN /\ returnedCount' = [returnedCount EXCEPT ![c] = @ + 1]
                   /\ cmds' = [cmds EXCEPT ![c].State = "returned"]
              ELSE UNCHANGED <<returnedCount, cmds>>
           /\ call' = [call EXCEPT ![t].At = "done",
                                   ![t].Expected = enqs - deqs,
                                   ![t].EmptyAtReturn = (Queue[1] = <<>>)]
    /\ UNCHANGED Queue
    /\ UNCHANGED <<queueVarsButQueue, exceptLock>>

(***************************************************************************)
(* Properties of the pointer graph.                                        *)
(***************************************************************************)
\* the chain of Parent fields that starts at the tracked pointer p reaches
\* root within `fuel' steps
RECURSIVE ChainReaches(_, _, _, _)
ChainReaches(nodes, p, root, fuel) ==
    LET i == NodeIndex(nodes, p)
    IN  IF fuel = 0 \/ i = 0 THEN FALSE
        ELSE IF nodes[i].Parent = root THEN TRUE
        ELSE IF nodes[i].Parent = NULL THEN FALSE
        ELSE ChainReaches(nodes, nodes[i].Parent, root, fuel - 1)

\* no tracked pointer is its own ancestor
Acyclic(nodes) ==
    \A i \in 1..Len(nodes) :
        ~ChainReaches(nodes, nodes[i].Ptr, nodes[i].Ptr, Len(nodes))

NoDuplicates(s) == \A i, j \in 1..Len(s) : s[i] = s[j] => i = j

\* C1: parent/children adjacency is symmetric: every tracked node with a
\* non-null Parent has a tracked node of that identity whose Children list
\* contains it.
C1_AdjacencySymmetric ==
    \A i \in 1..Len(Nodes) :
        Nodes[i].Parent # NULL =>
            \E j \in 1..Len(Nodes) :
                /\ Nodes[j].Ptr = Nodes[i].Parent
                /\ Nodes[i].Ptr \in Range(Nodes[j].Children)

\* C2: on an acyclic graph FindDependents(root) returns exactly the pointers
\* whose chain of Parent fields leads to root, each once and never root; for
\* a null root it returns the empty list.
C2_FindDependentsExact ==
    findResult.Called =>
        /\ findResult.Root = NULL => findResult.Dependents = <<>>
        /\ (findResult.Root # NULL /\ Acyclic(Nodes)) =>
            /\ findResult.Terminated
            /\ NoDuplicates(findResult.Dependents)
            /\ findResult.Root \notin Range(findResult.Dependents)
            /\ Range(findResult.Dependents) =
                 {Nodes[i].Ptr : i \in {k \in 1..Len(Nodes) :
                     ChainReaches(Nodes, Nodes[k].Ptr, findResult.Root, Len(Nodes))}}

\* a call on an acyclic graph that found a child and a grandchild of root
C2_Witness ==
    /\ findResult.Called
    /\ findResult.Root # NULL
    /\ Acyclic(Nodes)
    /\ Len(findResult.Dependents) = 2
    /\ \E i \in 1..Len(Nodes) :
          /\ Nodes[i].Ptr \in Range(findResult.Dependents)
          /\ Nodes[i].Parent # findResult.Root

(***************************************************************************)
(* Properties of the healing queue.                                        *)
(***************************************************************************)
\* the commands of the calls `op' in a trace, in call order
RECURSIVE CallsOf(_, _)
CallsOf(tr, op) ==
    IF tr = <<>> THEN <<>>
    ELSE (IF tr[1].op = op THEN <<tr[1].cmd>> ELSE <<>>) \o CallsOf(Tail(tr), op)

\* the trace is some Enqueue calls followed by some Dequeue calls
EnqueuesThenDequeues(tr) ==
    \A i, j \in 1..Len(tr) : i < j => ~(tr[i].op = "Dequeue" /\ tr[j].op = "Enqueue")

DistinctPriorities(q) ==
    \A i, j \in 1..Len(q) : i # j => cmds[q[i]].Priority # cmds[q[j]].Priority

\* C3: after N Enqueue calls with pairwise distinct priorities, sequential
\* Dequeue calls return the commands in strictly descending priority order,
\* the first one returning the highest-priority command.
C3_DequeueDescending ==
    \A t \in Threads :
        LET enq == CallsOf(trace[t], "Enqueue")
            deq == CallsOf(trace[t], "Dequeue")
        IN  (EnqueuesThenDequeues(trace[t]) /\ ~run[t].Ran /\ DistinctPriorities(enq)) =>
                /\ \A i, j \in 1..Len(deq) :
                      i < j => cmds[deq[i]].Priority > cmds[deq[j]].Priority
                /\ deq # <<>> =>
                      \A i \in 1..Len(enq) :
                          cmds[deq[1]].Priority >= cmds[enq[i]].Priority

\* C4: ExecuteAll executes no command before another command of strictly
\* higher priority that was in the queue when it started.
C4_ExecuteAllDescending ==
    \A t \in Threads :
        \A i, j \in 1..Len(run[t].Executed) :
            (i < j /\ run[t].Executed[j] \in Range(run[t].StartQueue)) =>
                cmds[run[t].Executed[i]].Priority >= cmds[run[t].Executed[j]].Priority

\* ExecuteAll of thread t has returned and nothing was enqueued since
Drained(t) ==
    /\ run[t].Ran
    /\ ~run[t].Active
    /\ EnqueueCount(trace[t]) = run[t].Enqueues

\* C5: ExecuteAll on a queue holding k commands executes each of them
\* exactly once, leaves the queue empty, adds the number of commands whose
\* Execute returned true to HealingSuccessCount and the number that returned
\* false to HealingFailedCount; no command is ever executed twice.
C5_ExecuteAllDrains ==
    /\ \A c \in Cmds : cmds[c].Executed <= 1
    /\ \A t \in Threads :
          Drained(t) =>
            LET k == run[t].StartQueue
            IN  /\ GetSize(Queue[t]) = 0
                /\ Len(run[t].Executed) = Len(k)
                /\ Range(run[t].Executed) = Range(k)
                /\ \A c \in Range(k) : cmds[c].Executed = 1 /\ cmds[c].State = "deleted"
                /\ GImResilienceMetrics.HealingSuccessCount - run[t].StartSuccess
                     = Cardinality({c \in Range(k) : cmds[c].Succeeds})
                /\ GImResilienceMetrics.HealingFailedCount - run[t].StartFailed
                     = Cardinality({c \in Range(k) : ~cmds[c].Succeeds})

\* an ExecuteAll that drained a queue holding a command that succeeds and one
\* that fails
C5_Witness ==
    /\ Drained(1)
    /\ \E a, b \in Range(run[1].StartQueue) : cmds[a].Succeeds /\ ~cmds[b].Succeeds

(***************************************************************************)
(* Properties of the timeout predictor.                                    *)
(***************************************************************************)
\* the adjacent pairs (e[i], e[i+1]) from the type of the last event to next
MatchingPairs(history, next) ==
    {i \in 1..(Len(history) - 1) :
        history[i].Type = Last(history).Type /\ history[i + 1].Type = next}

TimedOutPairs(history, next) ==
    {i \in MatchingPairs(history, next) : history[i + 1].TimedOut}

\* the types and flags of a history
Shape(history) == [i \in 1..Len(history) |-> <<history[i].Type, history[i].TimedOut>>]

\* C6: with at least 2 events recorded, PredictChainProbability(next) is the
\* double T/M, M the number of adjacent pairs from the last recorded type to
\* next and T the number of those whose second event timed out; it lies in
\* [0,1]; for [(A,false),(A,true),(A,false)] and query A it is 1/2.
C6_ChainProbability ==
    (predicted.Called /\ Len(EventHistory) >= 2) =>
        LET M == Cardinality(MatchingPairs(EventHistory, predicted.Next))
            T == Cardinality(TimedOutPairs(EventHistory, predicted.Next))
        IN  /\ M > 0 => predicted.Value = Round(<<T, M>>)
            /\ predicted.Value[2] > 0
            /\ 0 <= predicted.Value[1] /\ predicted.Value[1] <= predicted.Value[2]
            /\ (Shape(EventHistory) = <<<<1, FALSE>>, <<1, TRUE>>, <<1, FALSE>>>>
                 /\ predicted.Next = 1) => predicted.Value = <<1, 2>>

\* the query A on the history [(A,false),(A,true),(A,false)]
C6_Witness ==
    /\ predicted.Called
    /\ predicted.Next = 1
    /\ Shape(EventHistory) = <<<<1, FALSE>>, <<1, TRUE>>, <<1, FALSE>>>>

\* C7: PredictChainProbability returns 0.0 when the history holds fewer than
\* 2 events or no adjacent pair from the last recorded type to the queried
\* type.
C7_ZeroWithoutTransition ==
    predicted.Called =>
        ((Len(EventHistory) < 2 \/ MatchingPairs(EventHistory, predicted.Next) = {})
            => predicted.Value = Zero)

\* a query on a history of 3 events, one of them a timed out event of the
\* queried type, that holds no pair from the last type to the queried type
C7_Witness ==
    /\ predicted.Called
    /\ Len(EventHistory) = 3
    /\ MatchingPairs(EventHistory, predicted.Next) = {}
    /\ \E i \in 2..3 : EventHistory[i].Type = predicted.Next /\ EventHistory[i].TimedOut

(***************************************************************************)
(* Properties of the metrics.                                              *)
(***************************************************************************)
\* the exact sum of the values of a log, a fraction
RECURSIVE SumOf(_)
SumOf(log) ==
    IF log = <<>> THEN <<0, 1>>
    ELSE LET r == SumOf(Tail(log))
         IN  Reduced(log[1][1] * r[2] + r[1] * log[1][2], log[1][2] * r[2])

\* the double nearest to the arithmetic mean of a non-empty log
MeanOf(log) == Round(<<SumOf(log)[1], SumOf(log)[2] * Len(log)>>)

\* C8 as claimed: after n >= 1 UpdateException calls ExceptionCount is n and
\* AverageDetectionLatency is the arithmetic mean of the n latencies.
C8_AverageIsMean ==
    latencyLog # <<>> =>
        /\ GImResilienceMetrics.ExceptionCount = Len(latencyLog)
        /\ GImResilienceMetrics.AverageDetectionLatency = MeanOf(latencyLog)

\* C8 as amended: ExceptionCount is n; AverageDetectionLatency is the mean
\* for n <= 2 (1 and 3 give 2) and for larger n lies within the relative
\* error 3(n-1)u / (1 - 3(n-1)u) of the mean, u = 2^-MantBits the rounding
\* unit of one operation.
C8_RunningAverage ==
    latencyLog # <<>> =>
        LET n   == Len(latencyLog)
            avg == GImResilienceMetrics.AverageDetectionLatency
            sum == SumOf(latencyLog)
            k   == 3 * (n - 1)
            gap == avg[1] * sum[2] * n - sum[1] * avg[2]
        IN  /\ GImResilienceMetrics.ExceptionCount = n
            /\ n <= 2 => avg = MeanOf(latencyLog)
            /\ latencyLog = <<ToDouble(1), ToDouble(3)>> => avg = ToDouble(2)
            /\ k < Pow2(MantBits) =>
                  (IF gap < 0 THEN 0 - gap ELSE gap) * (Pow2(MantBits) - k)
                      <= k * sum[1] * avg[2]

\* three latencies whose running average is not the double nearest to
\* their mean
C8_Witness ==
    /\ Len(latencyLog) = 3
    /\ GImResilienceMetrics.ExceptionCount = 3
    /\ GImResilienceMetrics.AverageDetectionLatency # MeanOf(latencyLog)

(***************************************************************************)
(* Properties of the auto font switching and of the render heartbeat.      *)
(***************************************************************************)
\* C9: with auto switching enabled, 3 fonts and Time = 0.5 * frame, the font
\* index is incremented exactly once every 10 frames and wraps from 2 to 0.
C9_SwitchEveryTenFrames ==
    (g_AutoFontSwitchEnabled /\ hasAtlas /\ fontsSize = 3) =>
        /\ \A k \in 2..Len(switchFrames) : switchFrames[k] - switchFrames[k - 1] = 10
        /\ g_CurrentFontIndex = Len(switchFrames) % 3
        /\ frame >= 12 => switchFrames # <<>>

\* C10: between StartSession and EndSession CheckTimeout returns true
\* exactly when the host time minus the start time exceeds the timeout.
C10_CheckTimeoutInSession ==
    (checked.Called /\ sessionOpen) =>
        (checked.Value <=> (gTime - StartTime > TimeoutSec))

\* C11: while no session is active (before the first StartSession, after an
\* EndSession) CheckTimeout returns false, however far the time has advanced.
C11_NoSessionNoTimeout ==
    (checked.Called /\ ~sessionOpen) => ~checked.Value

\* a session was started after time 0 and ended, the time since its start
\* exceeds the timeout, and CheckTimeout was called
C11_Witness ==
    /\ checked.Called
    /\ ~sessionOpen
    /\ StartTime > 0
    /\ gTime - StartTime > TimeoutSec

\* C21: once SetTimeout(t) was called, a session with a name started after it
\* times out against t: CheckTimeout returns true exactly when the time since
\* the start exceeds t, whatever io.RenderTimeout the host configured.
C21_CustomTimeoutWins ==
    (checked.Called /\ sessionOpen /\ CurrentSession # NULL /\ custom.Set) =>
        (checked.Value <=> (gTime - StartTime > custom.Value))

\* C22: every healing queue is ordered by non-increasing priority from its
\* first to its last element, after any Enqueue and Dequeue calls.
C22_QueueDescending ==
    \A t \in Threads : \A i, j \in 1..Len(Queue[t]) :
        i < j => PriorityOf[Queue[t][i]] >= PriorityOf[Queue[t][j]]

\* after a Dequeue the command enqueued last stands first in a queue of
\* several priorities: the sort moved it there
C22_Witness ==
    /\ Len(Queue[1]) > 1
    /\ PriorityOf[Queue[1][1]] > PriorityOf[Last(Queue[1])]
    /\ Len(trace[1]) > 2
    /\ Last(trace[1]) = [op |-> "Enqueue", cmd |-> Queue[1][1]]
    /\ \E k \in 1..Len(trace[1]) : trace[1][k].op = "Dequeue"

\* the number of Parent steps from p up to root, 0 when the chain does not
\* reach root within `fuel' steps
RECURSIVE DepthBelow(_, _, _, _)
DepthBelow(nodes, p, root, fuel) ==
    IF fuel = 0 \/ ~IsTracked(nodes, p) THEN 0
    ELSE LET parent == nodes[NodeIndex(nodes, p)].Parent
         IN  IF parent = root THEN 1
             ELSE IF parent = NULL THEN 0
             ELSE LET d == DepthBelow(nodes, parent, root, fuel - 1)
                  IN  IF d = 0 THEN 0 ELSE d + 1

\* C23: FindDependents(root) lists the dependents breadth first: a pointer at
\* depth d below root stands before every pointer at a depth greater than d.
C23_BreadthFirstOrder ==
    (findResult.Called /\ findResult.Terminated /\ Acyclic(Nodes)) =>
        \A i, j \in 1..Len(findResult.Dependents) :
            i < j => DepthBelow(Nodes, findResult.Dependents[i], findResult.Root,
                                Len(Nodes))
                     <= DepthBelow(Nodes, findResult.Dependents[j], findResult.Root,
                                   Len(Nodes))

\* C24: under NewFrame ticks the current font index stays inside the font
\* list: below the font count, and 0 when no font is registered.
C24_FontIndexInRange ==
    IF hasAtlas /\ fontsSize > 0
    THEN g_CurrentFontIndex \in 0..(fontsSize - 1)
    ELSE g_CurrentFontIndex = 0

C25_UnmarkedScopeKeepsState ==
    [][/\ (ImIsolatedScopeDtor /\ IsValid(HasException)) =>
              /\ ActiveId' = ActiveId
              /\ DrawList' = DrawList
              /\ released' = released
              /\ CurrentWindow' = CurrentWindow
       /\ ImIsolatedScopeCtor => IsValid(HasException')
       /\ MarkAsException => ~IsValid(HasException')
       /\ (IsValid(HasException) /\ ~IsValid(HasException')) => MarkAsException
       /\ (~IsValid(HasException) /\ IsValid(HasException')) => ImIsolatedScopeCtor
      ]_vars

\* an unmarked scope was destroyed after the active id changed and a draw
\* list was installed in it: both changes are still there, nothing released
C25_Witness ==
    /\ scopeAt = "destroyed"
    /\ IsValid(HasException)
    /\ ActiveId # OriginalActiveId
    /\ ActiveId # 0
    /\ CurrentWindow # NULL
    /\ DrawList[CurrentWindow] \in installed
    /\ OriginalDrawList # NULL
    /\ released = {}

\* C26: every command passed to Enqueue is destroyed exactly once, by
\* ExecuteAll after its Execute call returned or by the queue's destructor
\* when still queued then; a command that Dequeue returned to a caller is
\* never destroyed by the queue.
C26_DestroyedExactlyOnce ==
    /\ \A c \in Cmds :
          /\ cmds[c].Deleted <= 1
          /\ cmds[c].State = "unallocated" => cmds[c].Deleted = 0
          /\ cmds[c].State = "queued" =>
                /\ cmds[c].Deleted = 0
                /\ \E t \in Threads :
                      Cardinality({i \in 1..Len(Queue[t]) : Queue[t][i] = c}) = 1
          /\ cmds[c].State = "taken" =>
                /\ cmds[c].Deleted = 0
                /\ \E t \in Threads : cmd[t] = c /\ pc[t] \in {"execute", "delete"}
          /\ cmds[c].State = "returned" =>
                cmds[c].Deleted = 0 /\ cmds[c].Executed = 0
          /\ cmds[c].State = "deleted" =>
                cmds[c].Deleted = 1 /\ cmds[c].Executed = 1
          /\ cmds[c].State = "destroyed" =>
                cmds[c].Deleted = 1 /\ cmds[c].Executed = 0
          /\ cmds[c].Deleted = 1 => \A t \in Threads : c \notin Range(Queue[t])
    /\ \A t \in Threads :
          /\ pc[t] = "execute" => cmds[cmd[t]].Deleted = 0
          /\ (~GImHealingQueue[t] /\ pc[t] = "idle") =>
                \A k \in 1..Len(trace[t]) :
                    trace[t][k].op = "Enqueue" =>
                        \/ cmds[trace[t][k].cmd].State = "returned"
                        \/ cmds[trace[t][k].cmd].Deleted = 1

\* the queue of thread 1 is gone: one of its commands was destroyed by
\* ExecuteAll, one by the destructor, and one was handed out by Dequeue
C26_Witness ==
    /\ ~GImHealingQueue[1]
    /\ pc[1] = "idle"
    /\ \E c \in Cmds : cmds[c].State = "deleted"
    /\ \E c \in Cmds : cmds[c].State = "destroyed"
    /\ \E c \in Cmds : cmds[c].State = "returned"

\* C27: FindDependents(root) terminates on every graph that TrackPointer,
\* UntrackPointer and UpdateDependency can build, for every root.
C27_FindDependentsTerminates ==
    findResult.Called => findResult.Terminated

\* C28: no UntrackPointer or UpdateDependency call hands erase_unsorted the
\* end of a Children list: the pointer it removes from its tracked parent's
\* list is in that list.
C28_NoEraseAtEnd ==
    ~eraseAtEnd

\* C29: when several threads have each run ExecuteAll on their own queue and
\* all have finished, HealingSuccessCount + HealingFailedCount equals the
\* number of commands executed by all of them.
C29_NoLostHealing ==
    (\A t \in Threads : pc[t] = "idle") =>
        GImResilienceMetrics.HealingSuccessCount
          + GImResilienceMetrics.HealingFailedCount
            = Cardinality({c \in Cmds : cmds[c].Executed > 0})

\* C13: the font fallback never yields null. GetDefaultFont returns the
\* minimal font when one was created, otherwise the first registered font
\* when the atlas has one, otherwise a static font object; ImSafeDeref
\* returns ptr when it is non-null, otherwise default_ptr when it is
\* non-null, otherwise a non-null fallback, with or without an engine.
C13_NeverNull ==
    deref.Called =>
        /\ deref.Value # NULL
        /\ deref.Op = "GetDefaultFont" =>
              deref.Value = IF MinimalFont # NULL THEN MinimalFont
                            ELSE IF hasAtlas /\ fontsSize > 0 THEN 1
                            ELSE GetDefaultFont_DefaultFont
        /\ deref.Op \in {"ImSafeDeref", "ImSafeDerefFont"} =>
              /\ deref.Ptr # NULL => deref.Value = deref.Ptr
              /\ (deref.Ptr = NULL /\ deref.Default # NULL) =>
                    deref.Value = deref.Default

\* an engine built before the host had an atlas, hence without a minimal
\* font, was asked for the default font once the atlas held a font
C13_Witness ==
    /\ deref.Called
    /\ deref.Op = "GetDefaultFont"
    /\ GImDefaultValueEngine
    /\ MinimalFont = NULL
    /\ hasAtlas
    /\ fontsSize > 0

\* the tracked pointers of a node list
Tracked(nodes) == {nodes[i].Ptr : i \in 1..Len(nodes)}

\* the node of a tracked pointer
NodeOf(nodes, p) == nodes[CHOOSE i \in 1..Len(nodes) : nodes[i].Ptr = p]

\* what C14 says of a call TrackPointer(ptr, parent, name) that takes the
\* graph from Nodes to Nodes'
TrackPointerEffect(ptr, parent, name) ==
    IF ptr = NULL \/ ptr \in Tracked(Nodes)
    THEN Nodes' = Nodes
    ELSE /\ graphStatus' = "ok"
         /\ Len(Nodes') = Len(Nodes) + 1
         /\ Tracked(Nodes') = Tracked(Nodes) \cup {ptr}
         /\ NodeOf(Nodes', ptr).Parent = parent

InNoChildren(nodes, p) ==
    \A i \in 1..Len(nodes) : p \notin Range(nodes[i].Children)

\* every node of the node list other than p is a node of after, with the
\* same Parent
OthersKept(nodes, after, p) ==
    /\ Tracked(after) \ {p} = Tracked(nodes) \ {p}
    /\ \A x \in Tracked(nodes) \ {p} :
          x \in Tracked(after) => NodeOf(after, x).Parent = NodeOf(nodes, x).Parent

\* what C15 says of a call UntrackPointer(ptr) from Nodes to Nodes'
UntrackPointerEffect(ptr) ==
    IF ptr = NULL \/ ptr \notin Tracked(Nodes)
    THEN Nodes' = Nodes
    ELSE /\ graphStatus' = "ok"
         /\ ~IsTracked(Nodes', ptr)
         /\ InNoChildren(Nodes', ptr)
         /\ OthersKept(Nodes, Nodes', ptr)

\* C15: after UntrackPointer(p) on a tracked p, p is not tracked, no Children
\* list holds p and every other node is still tracked with its Parent
\* unchanged; on a null or untracked pointer the call changes nothing.
C15_UntrackPointerEffect ==
    [][\A ptr \in PtrsOrNull :
          (/\ graphStatus = "ok"
           /\ \E o \in UntrackPointerResults(Nodes, ptr) : ApplyGraphOutcome(o))
              => UntrackPointerEffect(ptr)]_vars

\* what C16 says of a call UpdateDependency(ptr, new_parent), ptr non-null
UpdateDependencyEffect(ptr, new_parent) ==
    /\ graphStatus' = "ok"
    /\ ptr \in Tracked(Nodes')
    /\ NodeOf(Nodes', ptr).Parent = new_parent
    /\ \A i \in 1..Len(Nodes') :
          ptr \in Range(Nodes'[i].Children) => Nodes'[i].Ptr = new_parent
    /\ (new_parent # NULL /\ new_parent \in Tracked(Nodes')) =>
          ptr \in Range(NodeOf(Nodes', new_parent).Children)
    /\ OthersKept(Nodes, Nodes', ptr)

\* C16: after UpdateDependency(p, q) with non-null p, p is tracked with
\* Parent q, is in no Children list other than q's and is in q's list when q
\* is tracked; an untracked p is inserted; the other tracked nodes are the
\* same as before.
C16_UpdateDependencyEffect ==
    [][\A ptr \in Ptrs, new_parent \in PtrsOrNull :
          (/\ graphStatus = "ok"
           /\ \E o \in UpdateDependencyResults(Nodes, ptr, new_parent) :
                 ApplyGraphOutcome(o))
              => UpdateDependencyEffect(ptr, new_parent)]_vars

\* C17: the event history never holds more than MaxHistorySize events and is
\* always the most recent min(n, MaxHistorySize) of the n recorded events,
\* in recording order.
C17_HistoryIsRecentWindow ==
    LET n == Len(eventLog)
        k == IF n < MaxHistorySize THEN n ELSE MaxHistorySize
    IN  /\ Len(EventHistory) <= MaxHistorySize
        /\ EventHistory = SubSeq(eventLog, n - k + 1, n)

\* more events were recorded than the history holds
C17_Witness ==
    /\ Len(eventLog) = MaxHistorySize + MaxOverflow
    /\ Len(EventHistory) = MaxHistorySize
    /\ EventHistory[1].Timestamp = eventLog[1].Timestamp + MaxOverflow

\* how often a command occurs in a queue
Occurrences(q, c) == Cardinality({i \in 1..Len(q) : q[i] = c})

\* C18: Enqueue, Dequeue and GetSize on one queue exclude each other, so
\* under every interleaving of the threads no command is returned twice,
\* none is lost, GetSize returns the number of completed Enqueue calls
\* minus the completed Dequeue calls that returned a command, and Dequeue
\* returns null only when the queue is empty.
C18_QueueCallsExclusive ==
    /\ Cardinality({t \in Threads : call[t].At \notin {"idle", "lock", "done"}}) <= 1
    /\ \A c \in Cmds : returnedCount[c] <= 1
    /\ \A t \in Threads :
          call[t].At = "done" =>
              /\ call[t].Op = "GetSize" => call[t].Value = call[t].Expected
              /\ (call[t].Op = "Dequeue" /\ call[t].Cmd = NULL) => call[t].EmptyAtReturn
    /\ Mutex = NULL =>
          /\ Len(Queue[1]) = enqueuesCompleted - dequeuesCompleted
          /\ \A c \in Cmds :
                cmds[c].State \in {"queued", "returned"} =>
                    Occurrences(Queue[1], c) + returnedCount[c] = 1

\* both threads have completed calls, one of them a Dequeue that returned a
\* command while the other stood at the lock
C18_Witness ==
    /\ enqueuesCompleted = MaxCmds
    /\ dequeuesCompleted >= 1
    /\ \E t, u \in Threads :
          /\ t # u
          /\ call[t].Op = "GetSize" /\ call[t].At = "done" /\ call[t].Value >= 1
          /\ call[u].Op = "Dequeue" /\ call[u].At = "lock"

\* ImResilienceMetrics with every field zero
AllZero(m) ==
    /\ m.ExceptionCount = 0
    /\ m.HandledExceptionCount = 0
    /\ m.HealingSuccessCount = 0
    /\ m.HealingFailedCount = 0
    /\ m.AverageDetectionLatency = <<0, 1>>
    /\ m.AverageHealingTime = <<0, 1>>
    /\ m.TotalResourceLeak = 0
    /\ m.FrameDropCount = 0

\* the healing queues, their commands and the pointer graph stay as they are
QueuesAndGraphKept ==
    /\ Queue' = Queue
    /\ cmds' = cmds
    /\ GImHealingQueue' = GImHealingQueue
    /\ GImPointerGraph' = GImPointerGraph
    /\ Nodes' = Nodes

\* C19: Initialize sets every field of the process-wide metrics to zero,
\* whatever it held, and leaves the healing queue and the pointer graph as
\* they are; Shutdown leaves metrics, healing queue and pointer graph as
\* they are.
C19_InitializeShutdownFrame ==
    [][/\ (lifecycle' # lifecycle /\ lifecycle'.Op = "Initialize") =>
             (AllZero(GImResilienceMetrics') /\ QueuesAndGraphKept)
       /\ (lifecycle' # lifecycle /\ lifecycle'.Op = "Shutdown") =>
             (GImResilienceMetrics' = GImResilienceMetrics /\ QueuesAndGraphKept)]_vars

\* Initialize has just run on metrics with exceptions, healings, a leak and
\* a frame drop recorded, with commands queued and pointers tracked
C19_Witness ==
    /\ lifecycle.Op = "Initialize"
    /\ lifecycle.Before.ExceptionCount > 0
    /\ lifecycle.Before.HandledExceptionCount > 0
    /\ lifecycle.Before.HealingSuccessCount > 0
    /\ lifecycle.Before.HealingFailedCount > 0
    /\ lifecycle.Before.AverageDetectionLatency # <<0, 1>>
    /\ lifecycle.Before.AverageHealingTime # <<0, 1>>
    /\ lifecycle.Before.TotalResourceLeak > 0
    /\ lifecycle.Before.FrameDropCount > 0
    /\ AllZero(GImResilienceMetrics)
    /\ Len(Queue[1]) > 1
    /\ Len(Nodes) > 1

\* C20: the first NewFrame of a thread creates its pointer graph and healing
\* queue, which then exist for good; NewFrame and EndFrame never replace or
\* clear them, so tracked pointers persist and a queued command leaves the
\* queue only through Dequeue or Update; Update on a thread that never ran
\* NewFrame does nothing.
C20_FramesKeepState ==
    [][\A t \in Threads :
          /\ NewFrame(t) => (GImPointerGraph'[t] /\ GImHealingQueue'[t])
          /\ GImPointerGraph[t] => GImPointerGraph'[t]
          /\ GImHealingQueue[t] => GImHealingQueue'[t]
          /\ (NewFrame(t) \/ EndFrame(t)) =>
                (Queue' = Queue /\ cmds' = cmds /\ Nodes' = Nodes)
          /\ \A c \in Range(Queue[t]) \ Range(Queue'[t]) :
                dequeued'[t] = c \/ cmd'[t] = c
          /\ (~GImHealingQueue[t] /\ ~GImHealingQueue'[t]) =>
                (Queue'[t] = <<>> /\ pc'[t] = "idle")
          /\ (~GImHealingQueue[t] /\ Update(t)) => UNCHANGED vars]_vars

\* the last NewFrame of thread 1 found commands queued, and every command is
\* queued now with two pointers tracked
C20_Witness ==
    /\ GImHealingQueue[1]
    /\ Len(Queue[1]) = MaxCmds
    /\ Len(Nodes) > 1
    /\ queuedAtNewFrame[1]

(***************************************************************************)
(* Specifications: one per component, every other component at rest.       *)
(***************************************************************************)
Init ==
    /\ GraphInit
    /\ MetricsInit
    /\ QueueInit
    /\ FontInit
    /\ HeartbeatInit
    /\ gTime = 0
    /\ PredictorInit
    /\ HostInit

\* one ImPointerGraph
Next ==
    \/ TrackPointer
    \/ UntrackPointer
    \/ UpdateDependency
    \/ FindDependentsCall

Spec == Init /\ [][Next]_vars

\* the exception metrics: Reset and UpdateException
NextException ==
    \/ ResetMetrics
    \/ UpdateException

SpecException == Init /\ [][NextException]_vars

\* all metrics
NextMetrics ==
    \/ ResetMetrics
    \/ UpdateException
    \/ UpdateHealing
    \/ UpdateResourceLeak
    \/ UpdateFrameDrop

SpecMetrics == Init /\ [][NextMetrics]_vars

\* one thread with its thread-local healing queue
NextQueue ==
    \/ NewFrame(1)
    \/ Enqueue(1)
    \/ Dequeue(1)
    \/ Update(1)
    \/ ExecuteAllDequeue(1)
    \/ ExecuteAllExecute(1)
    \/ ExecuteAllDelete(1)
    \/ UpdateHealingLoad(1)
    \/ UpdateHealingStore(1)

SpecQueue == Init /\ [][NextQueue]_vars

\* the render loop of test_auto_font_switching.cpp
InitFont ==
    /\ GraphInit
    /\ MetricsInit
    /\ QueueInit
    /\ FontInitAny
    /\ HeartbeatInit
    /\ gTime = 0
    /\ PredictorInit
    /\ HostInit

NextFont ==
    \/ SetFontSwitchMode
    \/ SetTime
    \/ RenderNewFrame
    \/ RenderEndFrame
    \/ LeaveLoop

SpecFont == InitFont /\ [][NextFont]_vars

\* one ImIsolatedScope at a time, and the host around it
InitScope ==
    /\ GraphInit
    /\ MetricsInit
    /\ QueueInit
    /\ FontInit
    /\ HeartbeatInit
    /\ gTime = 0
    /\ PredictorInit
    /\ ScopeInitAny
    /\ EngineInit
    /\ LockInit
    /\ queuedAtNewFrame = [t \in Threads |-> FALSE]

NextScope ==
    \/ ImIsolatedScopeCtor
    \/ MarkAsException
    \/ ImIsolatedScopeDtor
    \/ SetCurrentWindow
    \/ InstallDrawList
    \/ SetActiveID

SpecScope == InitScope /\ [][NextScope]_vars

\* the default value engine: the host may or may not have a font atlas
InitEngine ==
    /\ GraphInit
    /\ MetricsInit
    /\ QueueInit
    /\ FontInitAny
    /\ HeartbeatInit
    /\ gTime = 0
    /\ PredictorInit
    /\ HostInit

NextEngine ==
    \/ Initialize
    \/ Shutdown
    \/ CreateFontAtlas
    \/ AddFont
    \/ GetDefaultFontCall
    \/ ImSafeDerefCall
    \/ ImSafeDerefFontCall

SpecEngine == InitEngine /\ [][NextEngine]_vars

\* one ImTimeoutPredictor over a run long enough to fill its history
NextHistory ==
    \/ RecordEventPerTick

SpecHistory == Init /\ [][NextHistory]_vars

\* the threads call Enqueue, Dequeue and GetSize on the queue of thread 1
NextSharedQueue ==
    \/ NewFrame(1)
    \/ \E t \in Threads : CallEnqueue(t)
    \/ \E t \in Threads : CallDequeueOrGetSize(t)
    \/ \E t \in Threads : Lock(t)
    \/ \E t \in Threads : EnqueuePushBack(t)
    \/ \E t \in Threads : EnqueueSort(t)
    \/ \E t \in Threads : DequeueBack(t)
    \/ \E t \in Threads : DequeuePopBack(t)
    \/ \E t \in Threads : GetSizeRead(t)
    \/ \E t \in Threads : Return(t)

SpecSharedQueue == Init /\ [][NextSharedQueue]_vars

\* Initialize and Shutdown in a program that has been running
InitLifecycle ==
    /\ GraphInitSome
    /\ MetricsInitSome
    /\ QueueInitSome
    /\ FontInit
    /\ HeartbeatInit
    /\ gTime = 0
    /\ PredictorInit
    /\ HostInit

NextLifecycle ==
    \/ Initialize
    \/ Shutdown
    \/ UpdateResourceLeak
    \/ UpdateFrameDrop

SpecLifecycle == InitLifecycle /\ [][NextLifecycle]_vars

\* the frame hooks and the healing queue of thread 1, with the last pointer
\* tracked as a child of the one before it
InitFrames ==
    /\ \E p \in Ptrs, q \in Ptrs :
          /\ q = p + 1
          /\ q = NumPtrs
          /\ Nodes = TrackPointerResult(TrackPointerResult(<<>>, p, NULL, NULL).nodes,
                                        q, p, NULL).nodes
    /\ graphStatus = "ok"
    /\ eraseAtEnd = FALSE
    /\ findResult = NoCall
    /\ MetricsInit
    /\ QueueInit
    /\ FontInit
    /\ HeartbeatInit
    /\ gTime = 0
    /\ PredictorInit
    /\ HostInit

NextFrames ==
    \/ NewFrame(1)
    \/ EndFrame(1)
    \/ Enqueue(1)
    \/ Dequeue(1)
    \/ Update(1)
    \/ ExecuteAllDequeue(1)
    \/ ExecuteAllExecute(1)
    \/ ExecuteAllDelete(1)
    \/ UpdateHealingLoad(1)
    \/ UpdateHealingStore(1)

SpecFrames == InitFrames /\ [][NextFrames]_vars

\* FindDependents on trees deep enough to tell the traversal orders apart
InitTraversal ==
    /\ GraphInitTree
    /\ MetricsInit
    /\ QueueInit
    /\ FontInit
    /\ HeartbeatInit
    /\ gTime = 0
    /\ PredictorInit
    /\ HostInit

NextTraversal ==
    \/ FindDependentsCall

SpecTraversal == InitTraversal /\ [][NextTraversal]_vars

\* the life of one healing queue, from its creation to its destructor
InitQueueLifetime ==
    /\ GraphInit
    /\ MetricsInit
    /\ QueueInitFramed
    /\ FontInit
    /\ HeartbeatInit
    /\ gTime = 0
    /\ PredictorInit
    /\ HostInit

NextQueueLifetime ==
    \/ Enqueue(1)
    \/ Dequeue(1)
    \/ Update(1)
    \/ ExecuteAllDequeue(1)
    \/ ExecuteAllExecute(1)
    \/ ExecuteAllDelete(1)
    \/ UpdateHealingLoad(1)
    \/ UpdateHealingStore(1)
    \/ ImHealingQueueDtor(1)

SpecQueueLifetime == InitQueueLifetime /\ [][NextQueueLifetime]_vars

\* every thread drains its own queue into the shared metrics
InitPerThread ==
    /\ GraphInit
    /\ MetricsInit
    /\ QueueInitPerThread
    /\ FontInit
    /\ HeartbeatInit
    /\ gTime = 0
    /\ PredictorInit
    /\ HostInit

NextPerThread ==
    \/ \E t \in Threads : Enqueue(t)
    \/ \E t \in Threads : Update(t)
    \/ \E t \in Threads : ExecuteAllDequeue(t)
    \/ \E t \in Threads : ExecuteAllExecute(t)
    \/ \E t \in Threads : ExecuteAllDelete(t)
    \/ \E t \in Threads : UpdateHealingLoad(t)
    \/ \E t \in Threads : UpdateHealingStore(t)

SpecPerThread == InitPerThread /\ [][NextPerThread]_vars

\* one ImRenderHeartbeat
InitHeartbeat ==
    /\ GraphInit
    /\ MetricsInit
    /\ QueueInit
    /\ FontInit
    /\ HeartbeatInitAny
    /\ gTime = 0
    /\ PredictorInit
    /\ HostInit

NextHeartbeat ==
    \/ StartSession
    \/ CheckTimeout
    \/ EndSession
    \/ SetTimeout
    \/ AdvanceTime

SpecHeartbeat == InitHeartbeat /\ [][NextHeartbeat]_vars

\* one ImTimeoutPredictor
NextPredictor ==
    \/ RecordEvent
    \/ PredictChainProbabilityCall
    \/ ResetPredictor
    \/ AdvanceTime

SpecPredictor == Init /\ [][NextPredictor]_vars

====
